---- MODULE Spec2Model ----
(***************************************************************************)
(* Verification model of the ariane-xml query engine: the per-file         *)
(* execution scheduler (execute, executeWithProgress,                      *)
(* executeMultithreaded), the aggregation and grouping code, the           *)
(* post-processing (ORDER BY, DISTINCT, OFFSET, LIMIT) and the WHERE       *)
(* parser.                                                                 *)
(*                                                                         *)
(* Program strings (std::string) are sequences of one-character strings,   *)
(* so that concatenation, find, comparison and the number conversions are  *)
(* computed character by character as the C++ library does.                *)
(***************************************************************************)
EXTENDS Integers, Sequences, FiniteSets, TLC

----------------------------------------------------------------------------
(* std::string                                                             *)

\* The printable ASCII characters, code 32 (space) to 126 (~), in order
\* (the double quote, the backslash and the back quote, which no string of
\* the model holds,
\* are place holders).
Ascii ==
  <<" ", "!", "<dquote>", "#", "$", "%", "&", "'", "(", ")", "*", "+",
    ",", "-",
    ".", "/", "0", "1", "2", "3", "4", "5", "6", "7", "8", "9", ":", ";",
    "<", "=", ">", "?", "@", "A", "B", "C", "D", "E", "F", "G", "H", "I",
    "J", "K", "L", "M", "N", "O", "P", "Q", "R", "S", "T", "U", "V", "W",
    "X", "Y", "Z", "[", "<backslash>", "]", "^", "_", "<backquote>",
    "a", "b", "c", "d", "e",
    "f", "g", "h", "i", "j", "k", "l", "m", "n", "o", "p", "q", "r", "s",
    "t", "u", "v", "w", "x", "y", "z", "{", "|", "}", "~">>

\* The character code of a character (unsigned char value).
Code(c) == 31 + (CHOOSE i \in 1..Len(Ascii) : Ascii[i] = c)

DigitChars == <<"0", "1", "2", "3", "4", "5", "6", "7", "8", "9">>

IsDigit(c) == \E i \in 1..10 : DigitChars[i] = c

DigitVal(c) == (CHOOSE i \in 1..10 : DigitChars[i] = c) - 1

\* std::string operator< : lexicographic comparison by character code.
RECURSIVE StrLess(_, _)
StrLess(a, b) ==
  IF b = <<>> THEN FALSE
  ELSE IF a = <<>> THEN TRUE
  ELSE IF Code(Head(a)) < Code(Head(b)) THEN TRUE
  ELSE IF Code(Head(a)) > Code(Head(b)) THEN FALSE
  ELSE StrLess(Tail(a), Tail(b))

\* std::string::find(needle, from): the first index >= from (0-based) at
\* which needle occurs in s, or Npos.
Npos == -1

OccursAt(s, needle, i) ==
  /\ i + Len(needle) <= Len(s)
  /\ \A j \in 1..Len(needle) : s[i + j] = needle[j]

Find(s, needle) ==
  IF \E i \in 0..Len(s) : OccursAt(s, needle, i)
  THEN CHOOSE i \in 0..Len(s) :
         /\ OccursAt(s, needle, i)
         /\ \A j \in 0..(i - 1) : ~OccursAt(s, needle, j)
  ELSE Npos

\* std::string::substr(pos) and substr(pos, n), 0-based.
SubstrFrom(s, pos) == SubSeq(s, pos + 1, Len(s))

Substr(s, pos, n) == SubSeq(s, pos + 1, pos + n)

----------------------------------------------------------------------------
(* Number conversions                                                      *)
(*                                                                         *)
(* A double is modelled by the integer number of millionths it holds       *)
(* (Micro), which is exact for the decimal values of the model and is the  *)
(* precision std::to_string(double) prints ("%f").                         *)

Micro == 1000000

\* Decimal digits of a natural number (std::to_string(size_t)).
RECURSIVE NatToString(_)
NatToString(n) ==
  IF n < 10 THEN <<DigitChars[n + 1]>>
  ELSE NatToString(n \div 10) \o <<DigitChars[(n % 10) + 1]>>

\* n written with exactly w digits, zero padded.
RECURSIVE PadDigits(_, _)
PadDigits(n, w) ==
  IF w = 0 THEN <<>>
  ELSE PadDigits(n \div 10, w - 1) \o <<DigitChars[(n % 10) + 1]>>

Abs(x) == IF x < 0 THEN -x ELSE x

\* std::to_string(double): "%f", six digits after the point.
DoubleToString(m) ==
  (IF m < 0 THEN <<"-">> ELSE <<>>)
    \o NatToString(Abs(m) \div Micro) \o <<".">> \o PadDigits(Abs(m) % Micro, 6)

\* The length of the longest prefix of s made of digits.
RECURSIVE DigitRun(_)
DigitRun(s) ==
  IF s # <<>> /\ IsDigit(Head(s)) THEN 1 + DigitRun(Tail(s)) ELSE 0

\* The value of a string of digits.
RECURSIVE DigitsValue(_)
DigitsValue(s) ==
  IF s = <<>> THEN 0
  ELSE DigitsValue(SubSeq(s, 1, Len(s) - 1)) * 10 + DigitVal(s[Len(s)])

\* The fraction digits s as millionths (digits beyond the sixth dropped).
FractionMicro(s) ==
  LET six == SubSeq(s \o <<"0", "0", "0", "0", "0", "0">>, 1, 6)
  IN DigitsValue(six)

\* std::stod: an optional sign, digits, an optional point and digits; the
\* longest such prefix is converted and the rest of the string is ignored;
\* std::invalid_argument (ok = FALSE) when no digit is found.  The strings of
\* the model hold no white space, exponent, hexadecimal, "inf" or "nan".
Stod(s) ==
  LET signed == s # <<>> /\ Head(s) \in {"-", "+"}
      neg    == s # <<>> /\ Head(s) = "-"
      body   == IF signed THEN Tail(s) ELSE s
      nInt   == DigitRun(body)
      afterI == SubSeq(body, nInt + 1, Len(body))
      hasDot == afterI # <<>> /\ Head(afterI) = "."
      nFrac  == IF hasDot THEN DigitRun(Tail(afterI)) ELSE 0
      frac   == IF hasDot THEN SubSeq(afterI, 2, 1 + nFrac) ELSE <<>>
      mag    == DigitsValue(SubSeq(body, 1, nInt)) * Micro + FractionMicro(frac)
  IN IF nInt = 0 /\ nFrac = 0
     THEN [ok |-> FALSE, val |-> 0]
     ELSE [ok |-> TRUE, val |-> IF neg THEN -mag ELSE mag]

\* sum / count in double arithmetic, as printed by "%f": rounded to the
\* nearest millionth (no tie can occur for count < 64 and sums that are
\* multiples of a millionth times a power of ten below 2^6).
DivRound(sum, count) ==
  IF sum >= 0 THEN (2 * sum + count) \div (2 * count)
  ELSE -((2 * (-sum) + count) \div (2 * count))

----------------------------------------------------------------------------
(* AST (ast.h)                                                             *)

\* A FieldPath with the defaults of the struct.
FieldPath ==
  [components |-> <<>>, include_filename |-> FALSE, is_variable_ref |-> FALSE,
   variable_name |-> <<>>, aggregate |-> "NONE", aggregate_arg |-> <<>>,
   alias |-> <<>>, is_count_star |-> FALSE, is_attribute |-> FALSE,
   attribute_name |-> <<>>]

\* The absent WHERE expression (a null unique_ptr).
NullExpr == [kind |-> "null"]

\* A Query with the defaults of the struct.
Query ==
  [select_fields |-> <<>>, from_path |-> <<>>, distinct |-> FALSE,
   for_clauses |-> <<>>, where |-> NullExpr, group_by_fields |-> <<>>,
   having |-> NullExpr, order_by_fields |-> <<>>,
   limit |-> -1, offset |-> -1, has_aggregates |-> FALSE]

\* An OrderByField.
OrderBy(name, dir) == [field_name |-> name, direction |-> dir]

\* Query::isForVariable
isForVariable(q, name) ==
  \E i \in 1..Len(q.for_clauses) : q.for_clauses[i].variable = name

\* Query::isPositionVariable
isPositionVariable(q, name) ==
  \E i \in 1..Len(q.for_clauses) :
    q.for_clauses[i].has_position /\ q.for_clauses[i].position_var = name

\* A ResultRow is a sequence of (field name, value) pairs.
Pair(n, v) == [name |-> n, value |-> v]

----------------------------------------------------------------------------
(* XML documents (pugixml) and the navigator (xml_navigator.cpp)           *)
(*                                                                         *)
(* An element is [name, text, children]: text is child_value(), children   *)
(* the child elements in document order.  A node handle (pugi::xml_node)   *)
(* is [anc, el]: the element and the names of its ancestors from the root  *)
(* element down, which is what parent() chains give.  Elements carry no    *)
(* XML attributes, and no FieldPath of the model has is_attribute set.     *)

Elem(n, t, kids) == [name |-> n, text |-> t, children |-> kids]

Handle(anc, el) == [anc |-> anc, el |-> el]

\* getNodePath lambda: the tag names from the root element down to the node
\* (empty for the document node, which is no element).
getNodePath(h) == IF h.el.name = <<>> THEN <<>> ELSE h.anc \o <<h.el.name>>

ChildHandle(h, i) == Handle(getNodePath(h), h.el.children[i])

\* The document node (*doc): the node without a name whose only child is
\* the document element.
DocNode(doc) == Handle(<<>>, Elem(<<>>, <<>>, <<doc.root>>))

\* doc.document_element()
RootHandle(doc) == ChildHandle(DocNode(doc), 1)

\* The element nodes of the subtree of h in document order, h first (the
\* order of the recursive searchTree / findElements lambdas).
RECURSIVE PreOrder(_), PreOrderKids(_, _)
PreOrder(h) == <<h>> \o PreOrderKids(h, 1)
PreOrderKids(h, i) ==
  IF i > Len(h.el.children) THEN <<>>
  ELSE PreOrder(ChildHandle(h, i)) \o PreOrderKids(h, i + 1)

\* endsWithPath lambda.
endsWithPath(nodePath, targetPath) ==
  /\ Len(nodePath) >= Len(targetPath)
  /\ \A i \in 1..Len(targetPath) :
       nodePath[Len(nodePath) - Len(targetPath) + i] = targetPath[i]

\* The handles whose tag path ends with path, in order.
SelectHandles(hs, path) ==
  SelectSeq(hs, LAMBDA h : endsWithPath(getNodePath(h), path))

\* XmlNavigator::findNodesByPartialPath from the nodes `from` (the subtree
\* of one node, or the whole document).
findNodesByPartialPath(from, path) ==
  IF path = <<>> THEN <<>> ELSE SelectHandles(from, path)

\* The lambda findElements of processNestedForClauses: every element of the
\* subtree that has the given name.
findElements(from, name) == SelectSeq(from, LAMBDA h : h.el.name = name)

\* XmlNavigator::findFirstElementByName: depth first, the node itself
\* included; the empty sequence stands for the null node.
findFirstElementByName(h, name) ==
  LET hits == findElements(PreOrder(h), name)
  IN IF hits = <<>> THEN <<>> ELSE <<hits[1]>>

\* xml_node::child(name): the first child element with that name.
ChildNamed(h, name) ==
  LET idx == {i \in 1..Len(h.el.children) : h.el.children[i].name = name}
  IN IF idx = {} THEN <<>>
     ELSE <<ChildHandle(h, CHOOSE i \in idx : \A j \in idx : i <= j)>>

\* The values of a sequence of handles, empty ones dropped.
RECURSIVE NonEmptyTexts(_)
NonEmptyTexts(hs) ==
  IF hs = <<>> THEN <<>>
  ELSE (IF Head(hs).el.text # <<>> THEN <<Head(hs).el.text>> ELSE <<>>)
         \o NonEmptyTexts(Tail(hs))

\* XmlNavigator::extractValues: the values of one SELECT field in a document.
extractValues(doc, filename, field) ==
  IF field.include_filename THEN <<filename>>
  ELSE IF field.components = <<>> THEN <<>>
  ELSE IF Len(field.components) = 1
  THEN LET root == RootHandle(doc)
           kids == [i \in 1..Len(doc.root.children) |-> ChildHandle(root, i)]
       IN NonEmptyTexts(findElements(kids, field.components[1]))
  ELSE NonEmptyTexts(findNodesByPartialPath(PreOrder(RootHandle(doc)),
                                            field.components))

\* std::stoull on the strings of the model: the value of the leading digits;
\* ok = FALSE (std::invalid_argument) when there is none.
Stoull(s) ==
  IF DigitRun(s) = 0 THEN [ok |-> FALSE, val |-> 0]
  ELSE [ok |-> TRUE, val |-> DigitsValue(SubSeq(s, 1, DigitRun(s)))]

\* XmlNavigator::compareValues for the comparison operators (LIKE and
\* NOT LIKE, which need std::regex, are not operators of the model).
compareValues(nodeValue, targetValue, op, isNumeric) ==
  IF isNumeric
  THEN LET a == Stod(nodeValue)
           b == Stod(targetValue)
       IN IF ~a.ok \/ ~b.ok THEN FALSE
          ELSE CASE op = "EQUALS"        -> a.val = b.val
                 [] op = "NOT_EQUALS"    -> a.val # b.val
                 [] op = "LESS_THAN"     -> a.val < b.val
                 [] op = "GREATER_THAN"  -> a.val > b.val
                 [] op = "LESS_EQUAL"    -> a.val <= b.val
                 [] op = "GREATER_EQUAL" -> a.val >= b.val
                 [] OTHER                -> FALSE
  ELSE CASE op = "EQUALS"        -> nodeValue = targetValue
         [] op = "NOT_EQUALS"    -> nodeValue # targetValue
         [] op = "LESS_THAN"     -> StrLess(nodeValue, targetValue)
         [] op = "GREATER_THAN"  -> StrLess(targetValue, nodeValue)
         [] op = "LESS_EQUAL"    -> ~StrLess(targetValue, nodeValue)
         [] op = "GREATER_EQUAL" -> ~StrLess(nodeValue, targetValue)
         [] OTHER                -> FALSE

\* Descend from h by direct children named comps[i..]; the text reached, or
\* the empty string.
RECURSIVE DescendText(_, _, _)
DescendText(h, comps, i) ==
  IF i > Len(comps) THEN h.el.text
  ELSE LET c == ChildNamed(h, comps[i])
       IN IF c = <<>> THEN <<>> ELSE DescendText(c[1], comps, i + 1)

\* XmlNavigator::getNodeValueRelative
getNodeValueRelative(h, field, offset) ==
  IF field.components = <<>> \/ offset >= Len(field.components) THEN <<>>
  ELSE IF Len(field.components) = 1 /\ offset = 0
  THEN LET f == findFirstElementByName(h, field.components[1])
       IN IF f = <<>> THEN <<>> ELSE f[1].el.text
  ELSE DescendText(h, field.components, offset + 1)

\* XmlNavigator::evaluateCondition(node, condition, parentDepth)
evaluateCondition(h, condition, parentDepth) ==
  LET nodeValue == getNodeValueRelative(h, condition.field, parentDepth)
  IN IF condition.op = "IS_NULL" THEN nodeValue = <<>>
     ELSE IF condition.op = "IS_NOT_NULL" THEN nodeValue # <<>>
     ELSE IF nodeValue = <<>> THEN FALSE
     ELSE compareValues(nodeValue, condition.value, condition.op,
                        condition.is_numeric)

----------------------------------------------------------------------------
(* FOR-clause binding (query_executor.cpp)                                 *)

\* std::map insert-or-assign, erase and the entry with the greatest key
\* (rbegin), for maps keyed by std::string.
MapPut(m, k, v) == [x \in (DOMAIN m) \cup {k} |-> IF x = k THEN v ELSE m[x]]

MapErase(m, k) == [x \in (DOMAIN m) \ {k} |-> m[x]]

EmptyMap == [x \in {} |-> x]

MapLastKey(m) ==
  CHOOSE k \in DOMAIN m : \A j \in DOMAIN m : j = k \/ StrLess(j, k)

\* The loops that split a dotted name into its non-empty components.
RECURSIVE SplitDots(_, _)
SplitDots(s, component) ==
  IF s = <<>> THEN (IF component # <<>> THEN <<component>> ELSE <<>>)
  ELSE IF Head(s) = "."
  THEN (IF component # <<>> THEN <<component>> ELSE <<>>)
         \o SplitDots(Tail(s), <<>>)
  ELSE SplitDots(Tail(s), component \o <<Head(s)>>)

\* QueryExecutor::resolveFieldWithContext
resolveFieldWithContext(field, varContext, positionContext, fallbackContext, q) ==
  IF field.is_variable_ref /\ field.variable_name # <<>>
       /\ isPositionVariable(q, field.variable_name)
  THEN IF field.variable_name \in DOMAIN positionContext
       THEN NatToString(positionContext[field.variable_name])
       ELSE <<>>
  ELSE IF field.is_variable_ref /\ field.variable_name # <<>>
  THEN IF field.variable_name \notin DOMAIN varContext THEN <<>>
       ELSE LET contextNode == varContext[field.variable_name]
                subPath == Tail(field.components)
            IN IF subPath = <<>> THEN contextNode.el.text
               ELSE IF Len(subPath) = 1
               THEN LET c == findFirstElementByName(contextNode, subPath[1])
                    IN IF c = <<>> THEN <<>> ELSE c[1].el.text
               ELSE LET ns == findNodesByPartialPath(PreOrder(contextNode), subPath)
                    IN IF ns = <<>> THEN <<>> ELSE ns[1].el.text
  ELSE IF Len(field.components) = 1
  THEN LET c == findFirstElementByName(fallbackContext, field.components[1])
       IN IF c = <<>> THEN <<>> ELSE c[1].el.text
  ELSE LET ns == findNodesByPartialPath(PreOrder(fallbackContext), field.components)
       IN IF ns = <<>> THEN <<>> ELSE ns[1].el.text

\* The comparison of a bound position with the condition value.
PositionCompare(posValue, condition) ==
  LET posStr == NatToString(posValue)
      n      == Stoull(condition.value)
  IN CASE condition.op = "EQUALS"        -> posStr = condition.value
       [] condition.op = "NOT_EQUALS"    -> posStr # condition.value
       [] condition.op = "LESS_THAN"     -> n.ok /\ posValue < n.val
       [] condition.op = "GREATER_THAN"  -> n.ok /\ posValue > n.val
       [] condition.op = "LESS_EQUAL"    -> n.ok /\ posValue <= n.val
       [] condition.op = "GREATER_EQUAL" -> n.ok /\ posValue >= n.val
       [] OTHER                          -> FALSE

\* QueryExecutor::evaluateWhereWithContext
RECURSIVE evaluateWhereWithContext(_, _, _, _)
evaluateWhereWithContext(varContext, positionContext, expr, q) ==
  IF expr.kind = "null" THEN TRUE
  ELSE IF expr.kind = "cond"
  THEN IF expr.field.is_variable_ref /\ expr.field.variable_name # <<>>
            /\ isPositionVariable(q, expr.field.variable_name)
       THEN /\ expr.field.variable_name \in DOMAIN positionContext
            /\ PositionCompare(positionContext[expr.field.variable_name], expr)
       ELSE IF expr.field.is_variable_ref /\ expr.field.variable_name # <<>>
       THEN /\ expr.field.variable_name \in DOMAIN varContext
            /\ evaluateCondition(
                 varContext[expr.field.variable_name],
                 [expr EXCEPT !.field.components =
                    IF Len(@) > 1 THEN Tail(@) ELSE <<>>],
                 0)
       ELSE /\ DOMAIN varContext # {}
            /\ evaluateCondition(varContext[MapLastKey(varContext)], expr, 0)
  ELSE LET leftResult  == evaluateWhereWithContext(varContext, positionContext,
                                                   expr.left, q)
           rightResult == evaluateWhereWithContext(varContext, positionContext,
                                                   expr.right, q)
       IN IF expr.op = "AND" THEN leftResult /\ rightResult
          ELSE IF expr.op = "OR" THEN leftResult \/ rightResult
          ELSE TRUE

\* String literals of the executor.
sFILE_NAME == <<"F", "I", "L", "E", "_", "N", "A", "M", "E">>
sGROUP_BY  == <<"_", "_", "G", "R", "O", "U", "P", "_", "B", "Y", "_", "_">>
sBars      == <<"|", "|", "|">>
sZero      == <<"0">>
sOne       == <<"1">>
sCountStar == <<"C", "O", "U", "N", "T", "(", "*", ")">>

\* The printed name of an aggregate function.
AggFuncName(agg) ==
  CASE agg = "COUNT" -> <<"C", "O", "U", "N", "T">>
    [] agg = "SUM"   -> <<"S", "U", "M">>
    [] agg = "AVG"   -> <<"A", "V", "G">>
    [] agg = "MIN"   -> <<"M", "I", "N">>
    [] OTHER         -> <<"M", "A", "X">>

\* The column name of an aggregate SELECT field under FOR clauses: the alias,
\* or FUNC(arg).
ForAggFieldName(field) ==
  IF field.alias = <<>>
  THEN AggFuncName(field.aggregate) \o <<"(">> \o field.aggregate_arg \o <<")">>
  ELSE field.alias

\* The value a SUM/AVG/MIN/MAX field contributes in one iteration.
ForAggArgValue(field, varContext, positionContext, currentContext, q) ==
  LET argComponents == SplitDots(field.aggregate_arg, <<>>)
  IN IF argComponents = <<>> THEN <<>>
     ELSE IF argComponents[1] \in DOMAIN varContext
     THEN LET varNode == varContext[argComponents[1]]
              rest    == Tail(argComponents)
              found   == {i \in 1..Len(rest) : ChildNamed(varNode, rest[i]) # <<>>}
          IN IF rest = <<>> THEN varNode.el.text
             ELSE IF found = {} THEN <<>>
             ELSE ChildNamed(varNode,
                    rest[CHOOSE i \in found : \A j \in found : i <= j])[1].el.text
     ELSE resolveFieldWithContext([FieldPath EXCEPT !.components = argComponents],
                                  varContext, positionContext, currentContext, q)

\* The __GROUP_BY__ pairs the base case puts in front of the row.
GroupByPairs(q, varContext, positionContext, currentContext) ==
  IF q.has_aggregates /\ q.group_by_fields # <<>>
  THEN [i \in 1..Len(q.group_by_fields) |->
         LET groupField == q.group_by_fields[i]
             comps      == SplitDots(groupField, <<>>)
             isVar      == comps # <<>> /\ isForVariable(q, comps[1])
             groupPath  == [FieldPath EXCEPT
                              !.components = comps,
                              !.is_variable_ref = isVar,
                              !.variable_name = IF isVar THEN comps[1] ELSE <<>>]
         IN Pair(sGROUP_BY \o groupField,
                 resolveFieldWithContext(groupPath, varContext, positionContext,
                                         currentContext, q))]
  ELSE <<>>

\* The pair of one SELECT field in the base case.
SelectPair(field, varContext, positionContext, currentContext, q, filename) ==
  IF field.aggregate = "COUNT" THEN Pair(ForAggFieldName(field), sOne)
  ELSE IF field.aggregate # "NONE"
  THEN Pair(ForAggFieldName(field),
            ForAggArgValue(field, varContext, positionContext, currentContext, q))
  ELSE IF field.include_filename THEN Pair(sFILE_NAME, filename)
  ELSE Pair(field.components[Len(field.components)],
            resolveFieldWithContext(field, varContext, positionContext,
                                    currentContext, q))

\* The nodes one FOR clause iterates over.
IterationNodes(forClause, currentContext, varContext, doc) ==
  LET comps == forClause.path.components
  IN IF comps = <<>> THEN <<>>
     ELSE IF comps[1] \in DOMAIN varContext
     THEN LET parentNode == varContext[comps[1]]
              subPath    == Tail(comps)
          IN IF Len(subPath) = 1
             THEN findElements(PreOrder(parentNode), subPath[1])
             ELSE IF subPath # <<>>
             THEN findNodesByPartialPath(PreOrder(parentNode), subPath)
             ELSE <<>>
     ELSE IF Len(comps) = 1
     THEN findElements(PreOrder(RootHandle(doc)), comps[1])
     ELSE findNodesByPartialPath(PreOrder(RootHandle(doc)), comps)

\* QueryExecutor::processNestedForClauses.  st = [results, var, pos] holds
\* the three reference parameters (results, varContext, positionContext);
\* the operator gives their values on return.  ForLoop is the loop over the
\* iteration nodes, from node i with position i.
RECURSIVE processNestedForClauses(_, _, _, _, _, _), ForLoop(_, _, _, _, _, _, _)
processNestedForClauses(currentContext, q, st, forClauseIndex, filename, doc) ==
  IF forClauseIndex > Len(q.for_clauses)
  THEN IF q.where.kind # "null"
            /\ ~evaluateWhereWithContext(st.var, st.pos, q.where, q)
       THEN st
       ELSE LET row ==
                  GroupByPairs(q, st.var, st.pos, currentContext)
                    \o [i \in 1..Len(q.select_fields) |->
                          SelectPair(q.select_fields[i], st.var, st.pos,
                                     currentContext, q, filename)]
            IN [st EXCEPT !.results = Append(@, row)]
  ELSE ForLoop(IterationNodes(q.for_clauses[forClauseIndex], currentContext,
                              st.var, doc),
               1, q, st, forClauseIndex, filename, doc)

\* The loop with `position` starting at 0.
ForLoopZeroBased(nodes, i, q, st, forClauseIndex, filename, doc) ==
  IF i > Len(nodes) THEN st
  ELSE LET forClause == q.for_clauses[forClauseIndex]
           bound == [st EXCEPT
                       !.var = MapPut(@, forClause.variable, nodes[i]),
                       !.pos = IF forClause.has_position
                               THEN MapPut(@, forClause.position_var, i - 1)
                               ELSE @]
           inner == processNestedForClauses(nodes[i], q, bound,
                                            forClauseIndex + 1, filename, doc)
           unbound == [inner EXCEPT
                         !.var = MapErase(@, forClause.variable),
                         !.pos = IF forClause.has_position
                                 THEN MapErase(@, forClause.position_var)
                                 ELSE @]
       IN ForLoop(nodes, i + 1, q, unbound, forClauseIndex, filename, doc)

ForLoop(nodes, i, q, st, forClauseIndex, filename, doc) ==
  IF i > Len(nodes) THEN st
  ELSE LET forClause == q.for_clauses[forClauseIndex]
           bound == [st EXCEPT
                       !.var = MapPut(@, forClause.variable, nodes[i]),
                       !.pos = IF forClause.has_position
                               THEN MapPut(@, forClause.position_var, i)
                               ELSE @]
           inner == processNestedForClauses(nodes[i], q, bound,
                                            forClauseIndex + 1, filename, doc)
           unbound == [inner EXCEPT
                         !.var = MapErase(@, forClause.variable),
                         !.pos = IF forClause.has_position
                                 THEN MapErase(@, forClause.position_var)
                                 ELSE @]
       IN ForLoop(nodes, i + 1, q, unbound, forClauseIndex, filename, doc)

----------------------------------------------------------------------------
(* Aggregation under FOR clauses (processFileWithForClauses)               *)

\* std::numeric_limits<double>::max() and lowest(), in millionths: beyond
\* every value of the model.
DblMax == 2000000000
DblLowest == -2000000000

\* The loop `for v in values: try sum += stod(v) catch skip`: the sum and
\* the number of values that parsed.
RECURSIVE SumLoop(_, _, _)
\* The loop without the catch that skips: a value that does not parse counts
\* as a 0.
SumLoopCountingUnparsable(values, sum, count) ==
  IF values = <<>> THEN [sum |-> sum, count |-> count]
  ELSE LET d == Stod(Head(values))
       IN SumLoop(Tail(values), sum + (IF d.ok THEN d.val ELSE 0), count + 1)

SumLoop(values, sum, count) ==
  IF values = <<>> THEN [sum |-> sum, count |-> count]
  ELSE LET d == Stod(Head(values))
       IN IF d.ok THEN SumLoop(Tail(values), sum + d.val, count + 1)
          ELSE SumLoop(Tail(values), sum, count)

\* The loop `if (val < minVal) minVal = val`.
RECURSIVE MinLoop(_, _)
MinLoop(values, minVal) ==
  IF values = <<>> THEN minVal
  ELSE LET d == Stod(Head(values))
       IN MinLoop(Tail(values), IF d.ok /\ d.val < minVal THEN d.val ELSE minVal)

\* The loop `if (val > maxVal) maxVal = val`.
RECURSIVE MaxLoop(_, _)
MaxLoop(values, maxVal) ==
  IF values = <<>> THEN maxVal
  ELSE LET d == Stod(Head(values))
       IN MaxLoop(Tail(values), IF d.ok /\ d.val > maxVal THEN d.val ELSE maxVal)

\* The switch that applies the aggregation function to the collected values.
ForApplyAggregate(agg, values) ==
  CASE agg = "COUNT" -> NatToString(Len(values))
    [] agg = "SUM"   -> DoubleToString(SumLoop(values, 0, 0).sum)
    [] agg = "AVG"   ->
         LET r == SumLoop(values, 0, 0)
         IN IF r.count > 0 THEN DoubleToString(DivRound(r.sum, r.count)) ELSE sZero
    [] agg = "MIN"   ->
         LET m == MinLoop(values, DblMax)
         IN IF m = DblMax THEN sZero ELSE DoubleToString(m)
    [] agg = "MAX"   ->
         LET m == MaxLoop(values, DblLowest)
         IN IF m = DblLowest THEN sZero ELSE DoubleToString(m)
    [] OTHER         -> sZero

\* The value a row contributes to an aggregate: the value of its first pair
\* whose name is the column name or contains the aggregate argument
\* (__GROUP_BY__ pairs excluded when grouping); none if no pair matches.
ForRowValue(row, field, grouping) ==
  LET fieldName == ForAggFieldName(field)
      hit(i) == /\ (grouping => Find(row[i].name, sGROUP_BY) # 0)
                /\ \/ row[i].name = fieldName
                   \/ Find(row[i].name, field.aggregate_arg) # Npos
      hits == {i \in 1..Len(row) : hit(i)}
  IN IF hits = {} THEN <<>>
     ELSE <<row[CHOOSE i \in hits : \A j \in hits : i <= j].value>>

\* The values collected for one aggregate over the rows.
RECURSIVE ForCollectValues(_, _, _)
ForCollectValues(rows, field, grouping) ==
  IF rows = <<>> THEN <<>>
  ELSE ForRowValue(Head(rows), field, grouping)
         \o ForCollectValues(Tail(rows), field, grouping)

\* The aggregate pairs of one output row.
RECURSIVE ForAggregatePairs(_, _, _, _)
ForAggregatePairs(fields, i, rows, grouping) ==
  IF i > Len(fields) THEN <<>>
  ELSE (IF fields[i].aggregate # "NONE"
        THEN <<Pair(ForAggFieldName(fields[i]),
                    ForApplyAggregate(fields[i].aggregate,
                                      ForCollectValues(rows, fields[i], grouping)))>>
        ELSE <<>>)
         \o ForAggregatePairs(fields, i + 1, rows, grouping)

\* The group key of a row: the values of its __GROUP_BY__ pairs joined by
\* "|||", the separator written only once the key is not empty.
RECURSIVE GroupKey(_, _, _, _)
GroupKey(row, groupFields, i, groupKey) ==
  IF i > Len(groupFields) THEN groupKey
  ELSE LET groupByFieldName == sGROUP_BY \o groupFields[i]
           hits == {j \in 1..Len(row) : row[j].name = groupByFieldName}
       IN IF hits = {} THEN GroupKey(row, groupFields, i + 1, groupKey)
          ELSE LET val == row[CHOOSE j \in hits : \A k \in hits : j <= k].value
               IN GroupKey(row, groupFields, i + 1,
                           (IF groupKey # <<>> THEN groupKey \o sBars ELSE groupKey)
                             \o val)

\* The keys of a std::map<std::string, ...> in iteration order.
RECURSIVE SortedKeys(_)
SortedKeys(keys) ==
  IF keys = {} THEN <<>>
  ELSE LET least == CHOOSE k \in keys : \A j \in keys : j = k \/ StrLess(k, j)
       IN <<least>> \o SortedKeys(keys \ {least})

\* The pairs (group field, value) recovered from a group key by splitting it
\* at "|||".
RECURSIVE GroupValuePairs(_, _, _)
GroupValuePairs(groupFields, i, remainingKey) ==
  IF i > Len(groupFields) THEN <<>>
  ELSE LET pos == Find(remainingKey, sBars)
       IN IF pos # Npos
          THEN <<Pair(groupFields[i], Substr(remainingKey, 0, pos))>>
                 \o GroupValuePairs(groupFields, i + 1,
                                    SubstrFrom(remainingKey, pos + 3))
          ELSE <<Pair(groupFields[i], remainingKey)>>
                 \o GroupValuePairs(groupFields, i + 1, remainingKey)

\* The aggregation that follows the nested iteration, applied to its rows.
ForAggregation(q, results) ==
  IF q.group_by_fields = <<>>
  THEN <<ForAggregatePairs(q.select_fields, 1, results, FALSE)>>
  ELSE LET keyOf(r) == GroupKey(r, q.group_by_fields, 1, <<>>)
           keys == SortedKeys({keyOf(results[i]) : i \in 1..Len(results)})
       IN [g \in 1..Len(keys) |->
             LET groupRows == SelectSeq(results, LAMBDA r : keyOf(r) = keys[g])
             IN GroupValuePairs(q.group_by_fields, 1, keys[g])
                  \o ForAggregatePairs(q.select_fields, 1, groupRows, TRUE)]

\* QueryExecutor::processFileWithForClauses
processFileWithForClauses(q, doc, filename) ==
  IF q.for_clauses = <<>> THEN <<>>
  ELSE LET st == processNestedForClauses(
                   RootHandle(doc), q,
                   [results |-> <<>>, var |-> EmptyMap, pos |-> EmptyMap],
                   1, filename, doc)
       IN IF q.has_aggregates /\ st.results # <<>>
          THEN ForAggregation(q, st.results)
          ELSE st.results

----------------------------------------------------------------------------
(* processFile (query_executor.cpp)                                        *)

\* extractFieldPathFromWhere: the field of the leftmost condition.
RECURSIVE extractFieldPathFromWhere(_)
extractFieldPathFromWhere(expr) ==
  IF expr.kind = "null" THEN FieldPath
  ELSE IF expr.kind = "cond" THEN expr.field
  ELSE extractFieldPathFromWhere(expr.left)

\* XmlNavigator::evaluateWhereExpr
RECURSIVE evaluateWhereExpr(_, _, _)
evaluateWhereExpr(h, expr, parentDepth) ==
  IF expr.kind = "null" THEN TRUE
  ELSE IF expr.kind = "cond" THEN evaluateCondition(h, expr, parentDepth)
  ELSE LET leftResult  == evaluateWhereExpr(h, expr.left, parentDepth)
           rightResult == evaluateWhereExpr(h, expr.right, parentDepth)
       IN CASE expr.op = "AND" -> leftResult /\ rightResult
            [] expr.op = "OR"  -> leftResult \/ rightResult
            [] OTHER           -> FALSE

\* found.parent() == node, for a node found in the subtree of node.
IsDirectChild(found, h) == found.anc = getNodePath(h) /\ found # h

\* The row built from a node that passed WHERE.
WhereRow(h, q, filename) ==
  [i \in 1..Len(q.select_fields) |->
     LET field == q.select_fields[i]
     IN IF field.include_filename THEN Pair(sFILE_NAME, filename)
        ELSE IF Len(field.components) = 1
        THEN LET f == findFirstElementByName(h, field.components[1])
             IN Pair(field.components[1], IF f = <<>> THEN <<>> ELSE f[1].el.text)
        ELSE LET ns == findNodesByPartialPath(PreOrder(h), field.components)
             IN Pair(field.components[Len(field.components)],
                     IF ns = <<>> THEN <<>> ELSE ns[1].el.text)]

\* shouldEvaluate of the searchTree lambda.
ShouldEvaluate(h, q, whereField, isNullCheck) ==
  IF isNullCheck
  THEN /\ h.el.name # <<>>
       /\ \E i \in 1..Len(q.select_fields) :
            LET selectField == q.select_fields[i]
            IN /\ ~selectField.include_filename
               /\ Len(selectField.components) = 1
               /\ LET f == findFirstElementByName(h, selectField.components[1])
                  IN f # <<>> /\ IsDirectChild(f[1], h)
  ELSE /\ whereField.components # <<>>
       /\ LET f == findFirstElementByName(h, whereField.components[1])
          IN f # <<>> /\ IsDirectChild(f[1], h)

\* The rows of the nodes, in order, that WHERE accepts.
RECURSIVE WhereRows(_, _, _, _)
WhereRows(hs, q, filename, parentDepth) ==
  IF hs = <<>> THEN <<>>
  ELSE (IF evaluateWhereExpr(Head(hs), q.where, parentDepth)
        THEN <<WhereRow(Head(hs), q, filename)>> ELSE <<>>)
         \o WhereRows(Tail(hs), q, filename, parentDepth)

Max(a, b) == IF a > b THEN a ELSE b

RECURSIVE MaxLen(_)
MaxLen(seqs) == IF seqs = <<>> THEN 0 ELSE Max(Len(Head(seqs)), MaxLen(Tail(seqs)))

\* The rows of a file for a query without FOR clauses and WHERE: the value
\* lists of the fields paired by position, short lists padded with the empty
\* string.
NoWhereRows(q, doc, filename) ==
  LET fieldResults == [f \in 1..Len(q.select_fields) |->
                         extractValues(doc, filename, q.select_fields[f])]
  IN [i \in 1..MaxLen(fieldResults) |->
        [f \in 1..Len(q.select_fields) |->
           Pair(IF q.select_fields[f].include_filename THEN sFILE_NAME
                ELSE q.select_fields[f].components[Len(q.select_fields[f].components)],
                IF i <= Len(fieldResults[f]) THEN fieldResults[f][i] ELSE <<>>)]]

\* QueryExecutor::processFile.  A file is [name, loads, root]; threw = TRUE
\* is the std::runtime_error of XmlLoader::load.
processFile(file, q) ==
  IF ~file.loads THEN [threw |-> TRUE, rows |-> <<>>]
  ELSE [threw |-> FALSE,
        rows |->
          IF q.for_clauses # <<>>
          THEN processFileWithForClauses(q, file, file.name)
          ELSE IF q.where.kind = "null" THEN NoWhereRows(q, file, file.name)
          ELSE LET whereField == extractFieldPathFromWhere(q.where)
               IN IF Len(whereField.components) < 2
                  THEN LET isNullCheck == /\ q.where.kind = "cond"
                                          /\ q.where.op \in {"IS_NULL", "IS_NOT_NULL"}
                       IN WhereRows(
                            SelectSeq(PreOrder(DocNode(file)),
                                      LAMBDA h : ShouldEvaluate(h, q, whereField,
                                                                isNullCheck)),
                            q, file.name, 0)
                  ELSE LET parentPath == SubSeq(whereField.components, 1,
                                                Len(whereField.components) - 1)
                       IN WhereRows(
                            findNodesByPartialPath(PreOrder(DocNode(file)), parentPath),
                            q, file.name, Len(parentPath))]

----------------------------------------------------------------------------
(* computeAggregate and the post-processing of execute / executeWithProgress *)

\* The numeric values and the count computeAggregate collects: for each row,
\* the first pair named targetField with a non-empty value.
RECURSIVE CollectNumeric(_, _, _, _)
CollectNumeric(rows, targetField, isCount, acc) ==
  IF rows = <<>> THEN acc
  ELSE LET row  == Head(rows)
           hits == {i \in 1..Len(row) :
                      row[i].name = targetField /\ row[i].value # <<>>}
       IN IF hits = {} THEN CollectNumeric(Tail(rows), targetField, isCount, acc)
          ELSE LET d == Stod(row[CHOOSE i \in hits : \A j \in hits : i <= j].value)
               IN CollectNumeric(
                    Tail(rows), targetField, isCount,
                    IF d.ok
                    THEN [numericValues |-> Append(acc.numericValues, d.val),
                          count |-> acc.count + 1]
                    ELSE [acc EXCEPT !.count = IF isCount THEN @ + 1 ELSE @])

RECURSIVE SumSeq(_)
SumSeq(vs) == IF vs = <<>> THEN 0 ELSE Head(vs) + SumSeq(Tail(vs))

\* The loops `minVal = numericValues[0]; for v: if (v < minVal) minVal = v`
\* and its mirror for MAX.
RECURSIVE MinSeq(_, _)
MinSeq(vs, minVal) ==
  IF vs = <<>> THEN minVal
  ELSE MinSeq(Tail(vs), IF Head(vs) < minVal THEN Head(vs) ELSE minVal)

RECURSIVE MaxSeq(_, _)
MaxSeq(vs, maxVal) ==
  IF vs = <<>> THEN maxVal
  ELSE MaxSeq(Tail(vs), IF Head(vs) > maxVal THEN Head(vs) ELSE maxVal)

\* QueryExecutor::computeAggregate, for a field that is COUNT(*) or has a
\* last component (components.back() of an empty vector is undefined: see
\* AggregateIsDefined).
computeAggregate(field, allRows) ==
  IF field.is_count_star THEN NatToString(Len(allRows))
  ELSE LET targetField == field.components[Len(field.components)]
           c  == CollectNumeric(allRows, targetField, field.aggregate = "COUNT",
                                [numericValues |-> <<>>, count |-> 0])
           vs == c.numericValues
       IN CASE field.aggregate = "COUNT" -> NatToString(c.count)
            [] field.aggregate = "SUM" ->
                 IF vs = <<>> THEN sZero ELSE DoubleToString(SumSeq(vs))
            [] field.aggregate = "AVG" ->
                 IF vs = <<>> THEN sZero
                 ELSE DoubleToString(DivRound(SumSeq(vs), Len(vs)))
            [] field.aggregate = "MIN" ->
                 IF vs = <<>> THEN <<>> ELSE DoubleToString(MinSeq(vs, vs[1]))
            [] field.aggregate = "MAX" ->
                 IF vs = <<>> THEN <<>> ELSE DoubleToString(MaxSeq(vs, vs[1]))
            [] OTHER -> <<>>

\* computeAggregate reads field.components.back(): defined only for COUNT(*)
\* and for a field with at least one component.
AggregateIsDefined(field) == field.is_count_star \/ field.components # <<>>

\* The column name execute gives an aggregate: FUNC(dotted path).
RECURSIVE JoinDots(_, _)
JoinDots(components, i) ==
  IF i > Len(components) THEN <<>>
  ELSE (IF i > 1 THEN <<".">> ELSE <<>>) \o components[i]
         \o JoinDots(components, i + 1)

ExecAggFieldName(field) ==
  IF field.is_count_star THEN sCountStar
  ELSE IF field.aggregate = "NONE" THEN <<>>
  ELSE AggFuncName(field.aggregate) \o <<"(">>
         \o JoinDots(field.components, 1) \o <<")">>

\* The value of the first pair of the row named orderField, or "".
OrderValue(row, orderField) ==
  LET hits == {i \in 1..Len(row) : row[i].name = orderField}
  IN IF hits = {} THEN <<>>
     ELSE row[CHOOSE i \in hits : \A j \in hits : i <= j].value

\* The comparator lambda of execute: numeric when both values parse, else
\* lexical; reversed operands' sense for DESC.
ExecuteLess(orderBy, a, b) ==
  LET aValue == OrderValue(a, orderBy.field_name)
      bValue == OrderValue(b, orderBy.field_name)
      aNum == Stod(aValue)
      bNum == Stod(bValue)
      descending == orderBy.direction = "DESC"
  IN IF aNum.ok /\ bNum.ok
     THEN (IF descending THEN aNum.val > bNum.val ELSE aNum.val < bNum.val)
     ELSE (IF descending THEN StrLess(bValue, aValue) ELSE StrLess(aValue, bValue))

\* The comparator lambda of executeWithProgress: the ascending result,
\* negated unless the direction is ASC.
ProgressLess(orderBy, a, b) ==
  LET aValue == OrderValue(a, orderBy.field_name)
      bValue == OrderValue(b, orderBy.field_name)
      aNum == Stod(aValue)
      bNum == Stod(bValue)
      result == IF aNum.ok /\ bNum.ok THEN aNum.val < bNum.val
                ELSE StrLess(aValue, bValue)
  IN IF orderBy.direction = "ASC" THEN result ELSE ~result

Comp(which, orderBy, a, b) ==
  IF which = "execute" THEN ExecuteLess(orderBy, a, b)
  ELSE ProgressLess(orderBy, a, b)

\* std::sort on at most 16 elements (libstdc++: one pass of insertion sort).
\* Element i goes to the front if it compares before the first element,
\* else it moves left while it compares before its left neighbour.
RECURSIVE LinearInsert(_, _, _, _, _)
LinearInsert(which, orderBy, sorted, val, j) ==
  IF j >= 1 /\ Comp(which, orderBy, val, sorted[j])
  THEN LinearInsert(which, orderBy, sorted, val, j - 1)
  ELSE SubSeq(sorted, 1, j) \o <<val>> \o SubSeq(sorted, j + 1, Len(sorted))

RECURSIVE InsertionSort(_, _, _, _)
InsertionSort(which, orderBy, rows, i) ==
  IF i > Len(rows) THEN rows
  ELSE LET sorted == SubSeq(rows, 1, i - 1)
           val    == rows[i]
           placed == IF Comp(which, orderBy, val, sorted[1])
                     THEN <<val>> \o sorted
                     ELSE LinearInsert(which, orderBy, sorted, val, i - 1)
       IN InsertionSort(which, orderBy,
                        placed \o SubSeq(rows, i + 1, Len(rows)), i + 1)

\* The ORDER BY step: sorts by the first ordering field, if any.
ApplyOrderBy(which, q, rows) ==
  IF q.order_by_fields # <<>> /\ Len(rows) > 1
  THEN InsertionSort(which, q.order_by_fields[1], rows, 2)
  ELSE rows

\* The serialized row DISTINCT compares: name:value| for each pair.
RECURSIVE RowKey(_)
RowKey(row) ==
  IF row = <<>> THEN <<>>
  ELSE Head(row).name \o <<":">> \o Head(row).value \o <<"|">> \o RowKey(Tail(row))

RECURSIVE UniqueRows(_, _)
UniqueRows(rows, seen) ==
  IF rows = <<>> THEN <<>>
  ELSE IF RowKey(Head(rows)) \in seen THEN UniqueRows(Tail(rows), seen)
  ELSE <<Head(rows)>> \o UniqueRows(Tail(rows), seen \cup {RowKey(Head(rows))})

ApplyDistinct(q, rows) == IF q.distinct THEN UniqueRows(rows, {}) ELSE rows

\* The OFFSET step of execute.
ApplyOffset(q, rows) ==
  IF q.offset >= 0 /\ q.offset < Len(rows) THEN SubSeq(rows, q.offset + 1, Len(rows))
  ELSE IF q.offset >= 0 /\ q.offset >= Len(rows) THEN <<>>
  ELSE rows

\* The LIMIT step.
ApplyLimit(q, rows) ==
  IF q.limit >= 0 /\ q.limit < Len(rows) THEN SubSeq(rows, 1, q.limit) ELSE rows

----------------------------------------------------------------------------
(* Lexer (lexer.cpp)                                                       *)

Token(type, value, position) == [type |-> type, value |-> value, position |-> position]

\* std::isspace, std::isalpha, std::isalnum, ::toupper on the characters of
\* the model (the only white space of its query texts is the space).
IsSpace(c) == c = " "

IsAlpha(c) == Code(c) \in 65..90 \/ Code(c) \in 97..122

IsAlnum(c) == IsAlpha(c) \/ IsDigit(c)

ToUpper(c) == IF Code(c) \in 97..122 THEN Ascii[Code(c) - 32 - 31] ELSE c

Upper(word) == [i \in 1..Len(word) |-> ToUpper(word[i])]

\* The keywords Lexer::identifyKeyword knows, in the order it tests them.
KeywordTable ==
  <<
    [word |-> <<"S", "E", "L", "E", "C", "T">>, type |-> "SELECT"],
    [word |-> <<"F", "R", "O", "M">>, type |-> "FROM"],
    [word |-> <<"W", "H", "E", "R", "E">>, type |-> "WHERE"],
    [word |-> <<"A", "N", "D">>, type |-> "AND"],
    [word |-> <<"O", "R">>, type |-> "OR"],
    [word |-> <<"O", "R", "D", "E", "R">>, type |-> "ORDER"],
    [word |-> <<"B", "Y">>, type |-> "BY"],
    [word |-> <<"L", "I", "M", "I", "T">>, type |-> "LIMIT"],
    [word |-> <<"A", "S", "C">>, type |-> "ASC"],
    [word |-> <<"D", "E", "S", "C">>, type |-> "DESC"],
    [word |-> <<"I", "S">>, type |-> "IS"],
    [word |-> <<"N", "O", "T">>, type |-> "NOT"],
    [word |-> <<"N", "U", "L", "L">>, type |-> "NULL_LITERAL"],
    [word |-> <<"L", "I", "K", "E">>, type |-> "LIKE"],
    [word |-> <<"S", "E", "T">>, type |-> "SET"],
    [word |-> <<"S", "H", "O", "W">>, type |-> "SHOW"],
    [word |-> <<"X", "S", "D">>, type |-> "XSD"],
    [word |-> <<"D", "E", "S", "T">>, type |-> "DEST"],
    [word |-> <<"G", "E", "N", "E", "R", "A", "T", "E">>, type |-> "GENERATE"],
    [word |-> <<"X", "M", "L">>, type |-> "XML"],
    [word |-> <<"P", "R", "E", "F", "I", "X">>, type |-> "PREFIX"],
    [word |-> <<"C", "H", "E", "C", "K">>, type |-> "CHECK"]
  >>

\* Lexer::identifyKeyword
identifyKeyword(word) ==
  LET upper == Upper(word)
      hits  == {i \in 1..Len(KeywordTable) : KeywordTable[i].word = upper}
  IN IF hits = {} THEN "IDENTIFIER"
     ELSE KeywordTable[CHOOSE i \in hits : TRUE].type

\* Lexer::skipWhitespace: the position (0-based) after the white space.
RECURSIVE skipWhitespace(_, _)
skipWhitespace(input, position) ==
  IF position < Len(input) /\ IsSpace(input[position + 1])
  THEN skipWhitespace(input, position + 1)
  ELSE position

\* The position at which the loop of readIdentifierOrKeyword stops.
RECURSIVE IdentifierEnd(_, _)
IdentifierEnd(input, position) ==
  IF position < Len(input)
     /\ (IsAlnum(input[position + 1]) \/ input[position + 1] = "_")
  THEN IdentifierEnd(input, position + 1)
  ELSE position

\* Lexer::readIdentifierOrKeyword: the token and the position after it.
readIdentifierOrKeyword(input, start) ==
  LET end   == IdentifierEnd(input, start)
      value == SubSeq(input, start + 1, end)
  IN [token |-> Token(identifyKeyword(value), value, start), position |-> end]

\* The position at which the loop of readNumber stops.
RECURSIVE NumberEnd(_, _)
NumberEnd(input, position) ==
  IF position < Len(input)
     /\ (IsDigit(input[position + 1]) \/ input[position + 1] = ".")
  THEN NumberEnd(input, position + 1)
  ELSE position

\* Lexer::readNumber
readNumber(input, start) ==
  LET end == NumberEnd(input, start)
  IN [token |-> Token("NUMBER", SubSeq(input, start + 1, end), start),
      position |-> end]

\* The position at which the loop of readString stops: the closing quote
\* or the end of the input.
RECURSIVE StringEnd(_, _, _)
StringEnd(input, position, quote) ==
  IF position < Len(input) /\ input[position + 1] # quote
  THEN StringEnd(input, position + 1, quote)
  ELSE position

\* Lexer::readString giving the unterminated literal as a STRING_LITERAL.
readStringAcceptingUnterminated(input, start) ==
  LET quote == input[start + 1]
      end   == StringEnd(input, start + 1, quote)
  IN [token |-> Token("STRING_LITERAL", SubSeq(input, start + 2, end), start),
      position |-> IF end >= Len(input) THEN end ELSE end + 1]

\* Lexer::readString: an unterminated literal is an INVALID token.
readString(input, start) ==
  LET quote == input[start + 1]
      end   == StringEnd(input, start + 1, quote)
      value == SubSeq(input, start + 2, end)
  IN IF end >= Len(input)
     THEN [token |-> Token("INVALID", value, start), position |-> end]
     ELSE [token |-> Token("STRING_LITERAL", value, start), position |-> end + 1]

\* The single-character tokens.
SingleCharType(c) ==
  CASE c = "." -> "DOT"
    [] c = "/" -> "SLASH"
    [] c = "," -> "COMMA"
    [] c = "(" -> "LPAREN"
    [] c = ")" -> "RPAREN"
    [] c = "=" -> "EQUALS"
    [] OTHER   -> "INVALID"

\* The loop of Lexer::tokenize from a position on.
RECURSIVE TokenizeFrom(_, _, _)
TokenizeFrom(input, position, tokens) ==
  LET p == skipWhitespace(input, position)
  IN IF p >= Len(input) THEN Append(tokens, Token("END_OF_INPUT", <<>>, p))
     ELSE LET current  == input[p + 1]
              equalsNext == p + 1 < Len(input) /\ input[p + 2] = "="
          IN IF current \in {"<", ">", "!"}
             THEN IF equalsNext
                  THEN TokenizeFrom(
                         input, p + 2,
                         Append(tokens,
                                Token(CASE current = "<" -> "LESS_EQUAL"
                                        [] current = ">" -> "GREATER_EQUAL"
                                        [] OTHER         -> "NOT_EQUALS",
                                      <<current, "=">>, p)))
                  ELSE TokenizeFrom(
                         input, p + 1,
                         Append(tokens,
                                Token(CASE current = "<" -> "LESS_THAN"
                                        [] current = ">" -> "GREATER_THAN"
                                        [] OTHER         -> "INVALID",
                                      <<current>>, p)))
             ELSE IF current \in {"<dquote>", "'"}
             THEN LET r == readString(input, p)
                  IN TokenizeFrom(input, r.position, Append(tokens, r.token))
             ELSE IF IsDigit(current)
             THEN LET r == readNumber(input, p)
                  IN TokenizeFrom(input, r.position, Append(tokens, r.token))
             ELSE IF IsAlpha(current) \/ current = "_"
             THEN LET r == readIdentifierOrKeyword(input, p)
                  IN TokenizeFrom(input, r.position, Append(tokens, r.token))
             ELSE TokenizeFrom(input, p + 1,
                               Append(tokens,
                                      Token(SingleCharType(current), <<current>>, p)))

\* Lexer::tokenize
tokenize(input) == TokenizeFrom(input, 0, <<>>)

----------------------------------------------------------------------------
(* Parser (parser.cpp)                                                     *)
(*                                                                         *)
(* current_ is the 0-based index `cur`.  A parse function gives            *)
(* [ok |-> TRUE, cur, val] on return and [ok |-> FALSE, msg] when it       *)
(* throws ParseError.                                                      *)

Ok(cur, val) == [ok |-> TRUE, cur |-> cur, val |-> val]

Err(msg) == [ok |-> FALSE, msg |-> msg]

\* What follows a parse function: F on the index and the value it returned,
\* nothing when it threw.
AndThen(r, F(_, _)) == IF r.ok THEN F(r.cur, r.val) ELSE r

\* Parser::peek
peek(toks, cur) ==
  IF cur >= Len(toks) THEN Token("END_OF_INPUT", <<>>, 0) ELSE toks[cur + 1]

\* Parser::advance: the index after the call.
advance(toks, cur) == IF cur < Len(toks) THEN cur + 1 ELSE cur

\* Parser::check
check(toks, cur, type) == peek(toks, cur).type = type

\* Parser::isAtEnd
isAtEnd(toks, cur) == cur >= Len(toks) \/ peek(toks, cur).type = "END_OF_INPUT"

\* The loop of parseFieldPath over the separators.
RECURSIVE FieldPathLoop(_, _, _)
FieldPathLoop(toks, cur, components) ==
  IF peek(toks, cur).type \in {"DOT", "SLASH"}
  THEN IF peek(toks, cur + 1).type # "IDENTIFIER"
       THEN Err("Expected identifier after separator")
       ELSE FieldPathLoop(toks, cur + 2,
                          Append(components, peek(toks, cur + 1).value))
  ELSE Ok(cur, [FieldPath EXCEPT !.components = components])

\* Parser::parseFieldPath
parseFieldPath(toks, cur) ==
  IF peek(toks, cur).value = sFILE_NAME
  THEN Ok(advance(toks, cur), [FieldPath EXCEPT !.include_filename = TRUE])
  ELSE IF peek(toks, cur).type # "IDENTIFIER"
  THEN Err("Expected field identifier")
  ELSE FieldPathLoop(toks, cur + 1, <<peek(toks, cur).value>>)

\* The loop `while (peek().type == DOT)` that extends a dotted name.
RECURSIVE DottedNameLoop(_, _, _, _)
DottedNameLoop(toks, cur, name, msg) ==
  IF peek(toks, cur).type = "DOT"
  THEN IF peek(toks, cur + 1).type # "IDENTIFIER" THEN Err(msg)
       ELSE DottedNameLoop(toks, cur + 2,
                           name \o <<".">> \o peek(toks, cur + 1).value, msg)
  ELSE Ok(cur, name)

\* The optional `AS alias` after a SELECT field.
OptionalAlias(toks, cur, field) ==
  IF check(toks, cur, "AS")
  THEN IF peek(toks, cur + 1).type # "IDENTIFIER"
       THEN Err("Expected alias name after AS")
       ELSE Ok(cur + 2, [field EXCEPT !.alias = peek(toks, cur + 1).value])
  ELSE Ok(cur, field)

\* Parser::parseSelectField
parseSelectField(toks, cur) ==
  IF peek(toks, cur).type \in {"COUNT", "SUM", "AVG", "MIN", "MAX"}
  THEN IF ~check(toks, cur + 1, "LPAREN")
       THEN Err("Expected '(' after aggregation function")
       ELSE IF peek(toks, cur + 2).type # "IDENTIFIER"
       THEN Err("Expected identifier in aggregation function")
       ELSE AndThen(
              DottedNameLoop(toks, cur + 3, peek(toks, cur + 2).value,
                             "Expected identifier after '.' in aggregation argument"),
              LAMBDA c, arg :
                IF ~check(toks, c, "RPAREN")
                THEN Err("Expected ')' after aggregation argument")
                ELSE OptionalAlias(toks, c + 1,
                                   [FieldPath EXCEPT
                                      !.aggregate = peek(toks, cur).type,
                                      !.aggregate_arg = arg]))
  ELSE AndThen(parseFieldPath(toks, cur),
               LAMBDA c, field : OptionalAlias(toks, c, field))

\* The SELECT list after its first field: `while (match(COMMA))`.
RECURSIVE SelectListLoop(_, _, _)
SelectListLoop(toks, cur, fields) ==
  IF check(toks, cur, "COMMA")
  THEN AndThen(parseSelectField(toks, cur + 1),
               LAMBDA c, field : SelectListLoop(toks, c, Append(fields, field)))
  ELSE Ok(cur, fields)

\* The token types parseFilePath appends to an unquoted path.
PathTokenTypes ==
  {"IDENTIFIER", "SLASH", "DOT", "XML", "SET", "SHOW", "XSD", "DEST", "GENERATE",
   "PREFIX", "CHECK", "VERBOSE", "ASC", "DESC", "COUNT", "SUM", "AVG", "MIN",
   "MAX", "AS", "IN", "AT", "BY"}

\* The loop of parseFilePath over the tokens of an unquoted path.
RECURSIVE FilePathLoop(_, _, _)
FilePathLoop(toks, cur, path) ==
  IF isAtEnd(toks, cur) THEN Ok(cur, path)
  ELSE IF peek(toks, cur).type \in {"WHERE", "ORDER", "LIMIT", "FOR", "END_OF_INPUT"}
  THEN Ok(cur, path)
  ELSE IF peek(toks, cur).type \in PathTokenTypes
  THEN FilePathLoop(toks, cur + 1, path \o peek(toks, cur).value)
  ELSE Ok(cur, path)

\* Parser::parseFilePath
parseFilePath(toks, cur) ==
  IF peek(toks, cur).type = "STRING_LITERAL"
  THEN Ok(advance(toks, cur), peek(toks, cur).value)
  ELSE AndThen(FilePathLoop(toks, cur, <<>>),
               LAMBDA c, path :
                 IF path = <<>>
                 THEN Err("Expected file or directory path after FROM")
                 ELSE Ok(c, path))

\* Parser::parseForClause
parseForClause(toks, cur) ==
  IF ~check(toks, cur, "FOR") THEN Err("Expected FOR keyword")
  ELSE IF peek(toks, cur + 1).type # "IDENTIFIER"
  THEN Err("Expected variable name after FOR")
  ELSE IF ~check(toks, cur + 2, "IN")
  THEN Err("Expected IN keyword after variable name")
  ELSE AndThen(
         parseFieldPath(toks, cur + 3),
         LAMBDA c, path :
           IF check(toks, c, "AT")
           THEN IF peek(toks, c + 1).type # "IDENTIFIER"
                THEN Err("Expected position variable name after AT")
                ELSE Ok(c + 2,
                        [variable |-> peek(toks, cur + 1).value, path |-> path,
                         position_var |-> peek(toks, c + 1).value,
                         has_position |-> TRUE])
           ELSE Ok(c, [variable |-> peek(toks, cur + 1).value, path |-> path,
                       position_var |-> <<>>, has_position |-> FALSE]))

\* `while (check(FOR)) for_clauses.push_back(parseForClause())`
RECURSIVE ForClausesLoop(_, _, _)
ForClausesLoop(toks, cur, clauses) ==
  IF check(toks, cur, "FOR")
  THEN AndThen(parseForClause(toks, cur),
               LAMBDA c, clause : ForClausesLoop(toks, c, Append(clauses, clause)))
  ELSE Ok(cur, clauses)

\* Parser::parseRegexPattern: the token values up to the closing '/'.
RECURSIVE RegexLoop(_, _, _)
RegexLoop(toks, cur, pattern) ==
  IF ~isAtEnd(toks, cur) /\ peek(toks, cur).type # "SLASH"
  THEN RegexLoop(toks, cur + 1, pattern \o peek(toks, cur).value)
  ELSE IF ~check(toks, cur, "SLASH")
  THEN Err("Expected '/' to close regex pattern")
  ELSE Ok(cur + 1, pattern)

parseRegexPattern(toks, cur) == RegexLoop(toks, cur, <<>>)

\* Parser::parseComparisonOp
parseComparisonOp(toks, cur) ==
  IF peek(toks, cur).type \in {"EQUALS", "NOT_EQUALS", "LESS_THAN", "GREATER_THAN",
                               "LESS_EQUAL", "GREATER_EQUAL"}
  THEN Ok(cur + 1, peek(toks, cur).type)
  ELSE Err("Expected comparison operator")

Condition(field, op, value, is_numeric) ==
  [kind |-> "cond", field |-> field, op |-> op, value |-> value,
   is_numeric |-> is_numeric, values |-> <<>>]

\* LIKE /regex/ and IS NOT LIKE /regex/ after the keyword.
LikeCondition(toks, cur, field, op) ==
  IF ~check(toks, cur, "SLASH") THEN Err("Expected '/' to start regex pattern")
  ELSE AndThen(parseRegexPattern(toks, cur + 1),
               LAMBDA c, pattern : Ok(c, Condition(field, op, pattern, FALSE)))

\* Parser::parseWhereCondition
parseWhereCondition(toks, cur) ==
  AndThen(
    parseFieldPath(toks, cur),
    LAMBDA c, f :
      IF check(toks, c, "IS")
      THEN IF check(toks, c + 1, "NOT")
           THEN IF check(toks, c + 2, "NULL_LITERAL")
                THEN Ok(c + 3, Condition(f, "IS_NOT_NULL", <<>>, FALSE))
                ELSE IF check(toks, c + 2, "LIKE")
                THEN LikeCondition(toks, c + 3, f, "NOT_LIKE")
                ELSE Err("Expected NULL or LIKE after IS NOT")
           ELSE IF check(toks, c + 1, "NULL_LITERAL")
           THEN Ok(c + 2, Condition(f, "IS_NULL", <<>>, FALSE))
           ELSE Err("Expected NULL or NOT after IS")
      ELSE IF check(toks, c, "LIKE")
      THEN LikeCondition(toks, c + 1, f, "LIKE")
      ELSE AndThen(
             parseComparisonOp(toks, c),
             LAMBDA v, op :
               IF peek(toks, v).type = "NUMBER"
               THEN Ok(v + 1, Condition(f, op, peek(toks, v).value, TRUE))
               ELSE IF peek(toks, v).type \in {"STRING_LITERAL", "IDENTIFIER"}
               THEN Ok(v + 1, Condition(f, op, peek(toks, v).value, FALSE))
               ELSE Err("Expected value in WHERE clause")))

Logical(op, left, right) ==
  [kind |-> "logical", op |-> op, left |-> left, right |-> right]

RECURSIVE parseWhereOr(_, _), WhereOrLoop(_, _, _), parseWhereAnd(_, _),
          WhereAndLoop(_, _, _), parseWherePrimary(_, _)

\* Parser::parseWhereOr
parseWhereOr(toks, cur) ==
  AndThen(parseWhereAnd(toks, cur), LAMBDA c, left : WhereOrLoop(toks, c, left))

\* `while (match(OR))` of parseWhereOr
WhereOrLoop(toks, cur, left) ==
  IF check(toks, cur, "OR")
  THEN AndThen(parseWhereAnd(toks, cur + 1),
               LAMBDA c, right : WhereOrLoop(toks, c, Logical("OR", left, right)))
  ELSE Ok(cur, left)

\* Parser::parseWhereAnd
parseWhereAnd(toks, cur) ==
  AndThen(parseWherePrimary(toks, cur), LAMBDA c, left : WhereAndLoop(toks, c, left))

\* A `while` of parseWhereAnd that also takes OR: one precedence level.
WhereAndLoopTakingOr(toks, cur, left) ==
  IF check(toks, cur, "AND") \/ check(toks, cur, "OR")
  THEN AndThen(parseWherePrimary(toks, cur + 1),
               LAMBDA c, right :
                 WhereAndLoop(toks, c, Logical(peek(toks, cur).type, left, right)))
  ELSE Ok(cur, left)

\* `while (match(AND))` of parseWhereAnd
WhereAndLoop(toks, cur, left) ==
  IF check(toks, cur, "AND")
  THEN AndThen(parseWherePrimary(toks, cur + 1),
               LAMBDA c, right : WhereAndLoop(toks, c, Logical("AND", left, right)))
  ELSE Ok(cur, left)

\* Parser::parseWherePrimary
parseWherePrimary(toks, cur) ==
  IF check(toks, cur, "LPAREN")
  THEN AndThen(parseWhereOr(toks, cur + 1),
               LAMBDA c, expr :
                 IF ~check(toks, c, "RPAREN")
                 THEN Err("Expected closing parenthesis")
                 ELSE Ok(c + 1, expr))
  ELSE parseWhereCondition(toks, cur)

\* Parser::parseWhereClause and parseWhereExpression
parseWhereClause(toks, cur) == parseWhereOr(toks, cur)

\* std::stoi of a NUMBER token (digits and dots, first a digit): the digits
\* before the first dot; out_of_range above INT_MAX.
RECURSIVE StripZeros(_)
StripZeros(s) == IF Len(s) > 1 /\ Head(s) = "0" THEN StripZeros(Tail(s)) ELSE s

sIntMax == <<"2", "1", "4", "7", "4", "8", "3", "6", "4", "7">>

StoiDigits(digits) ==
  IF Len(digits) > Len(sIntMax)
     \/ (Len(digits) = Len(sIntMax) /\ StrLess(sIntMax, digits))
  THEN [ok |-> FALSE, val |-> 0]
  ELSE [ok |-> TRUE, val |-> DigitsValue(digits)]

Stoi(s) == StoiDigits(StripZeros(SubSeq(s, 1, DigitRun(s))))

\* The optional ASC / DESC after an ORDER BY field: consumed, not stored.
SkipDirection(toks, cur) ==
  IF check(toks, cur, "ASC") \/ check(toks, cur, "DESC") THEN cur + 1 ELSE cur

\* `while (match(COMMA))` of parseOrderByClause
RECURSIVE OrderByLoop(_, _, _)
OrderByLoop(toks, cur, fields) ==
  IF check(toks, cur, "COMMA")
  THEN IF peek(toks, cur + 1).type # "IDENTIFIER"
       THEN Err("Expected field name after comma in ORDER BY")
       ELSE OrderByLoop(toks, SkipDirection(toks, cur + 2),
                        Append(fields, OrderBy(peek(toks, cur + 1).value, "ASC")))
  ELSE Ok(cur, fields)

\* Parser::parseOrderByClause: the ORDER BY fields, every direction ASC.
parseOrderByClause(toks, cur) ==
  IF ~check(toks, cur, "ORDER") THEN Err("Expected ORDER keyword")
  ELSE IF ~check(toks, cur + 1, "BY") THEN Err("Expected BY keyword after ORDER")
  ELSE IF peek(toks, cur + 2).type # "IDENTIFIER"
  THEN Err("Expected field name after ORDER BY")
  ELSE OrderByLoop(toks, SkipDirection(toks, cur + 3),
                   <<OrderBy(peek(toks, cur + 2).value, "ASC")>>)

\* Parser::parseLimitClause
parseLimitClause(toks, cur) ==
  IF ~check(toks, cur, "LIMIT") THEN Err("Expected LIMIT keyword")
  ELSE IF peek(toks, cur + 1).type # "NUMBER" THEN Err("Expected number after LIMIT")
  ELSE IF ~Stoi(peek(toks, cur + 1).value).ok THEN Err("LIMIT value out of range")
  ELSE Ok(cur + 2, Stoi(peek(toks, cur + 1).value).val)

\* One GROUP BY field (a dotted name) and the fields after the commas.
RECURSIVE GroupByLoop(_, _, _)
GroupByLoop(toks, cur, fields) ==
  IF check(toks, cur, "COMMA")
  THEN IF peek(toks, cur + 1).type # "IDENTIFIER"
       THEN Err("Expected field name after comma in GROUP BY")
       ELSE AndThen(
              DottedNameLoop(toks, cur + 2, peek(toks, cur + 1).value,
                             "Expected identifier after '.' in GROUP BY field"),
              LAMBDA c, name : GroupByLoop(toks, c, Append(fields, name)))
  ELSE Ok(cur, fields)

\* Parser::parseGroupByClause
parseGroupByClause(toks, cur) ==
  IF ~check(toks, cur, "GROUP") THEN Err("Expected GROUP keyword")
  ELSE IF ~check(toks, cur + 1, "BY") THEN Err("Expected BY keyword after GROUP")
  ELSE IF peek(toks, cur + 2).type # "IDENTIFIER"
  THEN Err("Expected field name after GROUP BY")
  ELSE AndThen(
         DottedNameLoop(toks, cur + 3, peek(toks, cur + 2).value,
                        "Expected identifier after '.' in GROUP BY field"),
         LAMBDA c, name : GroupByLoop(toks, c, <<name>>))

\* The marking of one field path that starts with a FOR or position variable.
MarkVariableReference(field, q) ==
  IF field.components # <<>>
     /\ (isForVariable(q, field.components[1])
         \/ isPositionVariable(q, field.components[1]))
  THEN [field EXCEPT !.is_variable_ref = TRUE, !.variable_name = field.components[1]]
  ELSE field

\* Parser::markVariableReferencesInWhere
RECURSIVE markVariableReferencesInWhere(_, _)
markVariableReferencesInWhere(expr, q) ==
  IF expr.kind = "null" THEN expr
  ELSE IF expr.kind = "cond"
  THEN [expr EXCEPT !.field = MarkVariableReference(@, q)]
  ELSE [expr EXCEPT !.left = markVariableReferencesInWhere(@, q),
                    !.right = markVariableReferencesInWhere(@, q)]

\* The post-processing at the end of parse().
MarkVariableReferences(q) ==
  IF q.for_clauses = <<>> THEN q
  ELSE [q EXCEPT
          !.select_fields = [i \in 1..Len(q.select_fields) |->
                               MarkVariableReference(q.select_fields[i], q)],
          !.where = markVariableReferencesInWhere(q.where, q)]

\* The optional clauses of parse(), each on the query so far: r is
\* [ok, cur, val] with val the query.
ParseWhere(toks, r) ==
  IF ~r.ok \/ ~check(toks, r.cur, "WHERE") THEN r
  ELSE AndThen(parseWhereClause(toks, r.cur + 1),
               LAMBDA c, w : Ok(c, [r.val EXCEPT !.where = w]))

ParseGroupBy(toks, r) ==
  IF ~r.ok \/ ~check(toks, r.cur, "GROUP") THEN r
  ELSE AndThen(parseGroupByClause(toks, r.cur),
               LAMBDA c, g : Ok(c, [r.val EXCEPT !.group_by_fields = g]))

ParseOrderBy(toks, r) ==
  IF ~r.ok \/ ~check(toks, r.cur, "ORDER") THEN r
  ELSE AndThen(parseOrderByClause(toks, r.cur),
               LAMBDA c, o : Ok(c, [r.val EXCEPT !.order_by_fields = o]))

ParseLimit(toks, r) ==
  IF ~r.ok \/ ~check(toks, r.cur, "LIMIT") THEN r
  ELSE AndThen(parseLimitClause(toks, r.cur),
               LAMBDA c, l : Ok(c, [r.val EXCEPT !.limit = l]))

\* SELECT list, FROM path and FOR clauses: the mandatory start of parse().
ParseSelectFrom(toks) ==
  IF ~check(toks, 0, "SELECT") THEN Err("Expected SELECT keyword")
  ELSE AndThen(parseSelectField(toks, 1), LAMBDA c1, first :
       AndThen(SelectListLoop(toks, c1, <<first>>), LAMBDA c2, fields :
         IF ~check(toks, c2, "FROM") THEN Err("Expected FROM keyword")
         ELSE AndThen(parseFilePath(toks, c2 + 1), LAMBDA c3, path :
              AndThen(ForClausesLoop(toks, c3, <<>>), LAMBDA c4, fors :
                Ok(c4, [Query EXCEPT
                          !.select_fields = fields,
                          !.has_aggregates =
                            \E i \in 1..Len(fields) : fields[i].aggregate # "NONE",
                          !.from_path = path,
                          !.for_clauses = fors])))))

\* The end of Parser::parse without its check that no token is left.
ParseEndAcceptingLeftover(toks, r) ==
  IF ~r.ok THEN [status |-> "ParseError", msg |-> r.msg]
  ELSE [status |-> "ok", query |-> MarkVariableReferences(r.val)]

\* The end of Parser::parse: the throw of a clause, the check that no token
\* is left, and the marking of the variable references.
ParseEnd(toks, r) ==
  IF ~r.ok THEN [status |-> "ParseError", msg |-> r.msg]
  ELSE IF ~isAtEnd(toks, r.cur)
  THEN [status |-> "ParseError", msg |-> "Unexpected tokens after query"]
  ELSE [status |-> "ok", query |-> MarkVariableReferences(r.val)]

\* The clauses of Parser::parse, in its order.
ParseClauses(toks) ==
  ParseLimit(toks, ParseOrderBy(toks, ParseGroupBy(toks,
    ParseWhere(toks, ParseSelectFrom(toks)))))

\* Parser::parse: [status |-> "ok", query] or [status |-> "ParseError", msg].
parse(toks) == ParseEnd(toks, ParseClauses(toks))

----------------------------------------------------------------------------
(* State                                                                   *)

VARIABLES
  entry,         \* the entry point called: "execute", "executeWithProgress",
                 \* or the Lexer's "tokenize" or the Parser's "parse" on their own
  query,         \* the Query being executed
  xmlFiles,      \* getXmlFiles(query.from_path): the files, in directory order
  fileOutcome,   \* what processing each file gives this call: the rows, or the throw
  hwThreads,     \* what std::thread::hardware_concurrency() returns
  pc,            \* position of the calling thread
  fileIdx,       \* loop index of the sequential file loops (1-based)
  allResults,    \* the merged rows (allResults), then the rows returned
  wpc,           \* worker threads: position of each worker
  wFileIdx,      \* worker threads: fileIdx of each worker (0-based)
  fileResults,   \* worker threads: the rows of the file just processed
  resultsMutex,  \* the worker that holds resultsMutex, or NoThread
  completed,     \* the atomic counter of completed files
  done,          \* the atomic flag that stops the progress thread
  mpc,           \* position of the progress monitoring thread
  progress,      \* the last `completed` value passed to progressCallback
  input,         \* parser: the text of the query
  tokens,        \* parser: the token list
  parsed,        \* parser: the outcome of parse()
  schema,        \* rewriter: the DsnSchema (schema_)
  rewritten,     \* rewriter: the Query returned by rewrite()
  cerr,          \* rewriter: the warnings written to std::cerr
  call,          \* binder: the arguments of a processNestedForClauses call
  ret,           \* binder: varContext and positionContext when it returned
  processed      \* worker threads: the file indices each worker gave to processFile

vars == <<entry, query, xmlFiles, fileOutcome, hwThreads, pc, fileIdx,
          allResults, wpc, wFileIdx, fileResults, resultsMutex, completed, done,
          mpc, progress, input, tokens, parsed, schema, rewritten, cerr,
          call, ret, processed>>

threadVars == <<wpc, wFileIdx, fileResults, resultsMutex, completed, done, mpc,
                progress, hwThreads>>

parserVars == <<input, tokens, parsed>>

rewriterVars == <<schema, rewritten, cerr>>

binderVars == <<call, ret>>

logVars == <<processed>>

NoThread == -1

\* The values of the variables a specification does not use.
ThreadsIdle ==
  /\ wpc = <<>> /\ wFileIdx = <<>> /\ fileResults = <<>>
  /\ resultsMutex = NoThread /\ completed = 0 /\ done = FALSE
  /\ mpc = "none" /\ progress = -1
  /\ processed = <<>>

ParserIdle == input = <<>> /\ tokens = <<>> /\ parsed = [status |-> "none"]

\* DsnSchema::DsnSchema: the maps are empty.
DsnSchema == [shortcut_map_ |-> <<>>, full_name_map_ |-> <<>>]

RewriterIdle == schema = DsnSchema /\ rewritten = Query /\ cerr = <<>>

BinderIdle == call = <<>> /\ ret = <<>>

----------------------------------------------------------------------------
(* Inputs: documents, directories and queries                              *)

sR   == <<"r">>
sEmp == <<"e", "m", "p">>
sK   == <<"k">>
sV   == <<"v">>
sE   == <<"e">>
sA   == <<"a">>
sB   == <<"b">>
s10  == <<"1", "0">>
s20  == <<"2", "0">>
s5   == <<"5">>
sAbc == <<"a", "b", "c">>
sEK  == <<"e", ".", "k">>
sEV  == <<"e", ".", "v">>

\* <emp><k>k</k><v>v</v></emp>
Emp(k, v) == Elem(sEmp, <<>>, <<Elem(sK, k, <<>>), Elem(sV, v, <<>>)>>)

\* <r> emps </r>
Root(emps) == Elem(sR, <<>>, emps)

\* The name of the i-th file of the directory.
FileName(i) == <<"f">> \o NatToString(i)

File(i, loads, root) == [name |-> FileName(i), loads |-> loads, root |-> root]

Unreadable == Root(<<>>)

\* The document roots of the directories.
Roots ==
  <<Root(<<Emp(sA, s10), Emp(sB, s20)>>),
    Root(<<Emp(sB, s10)>>),
    Root(<<Emp(sA, sAbc), Emp(sA, s5)>>)>>

\* A plain SELECT field and the FILE_NAME field.
Field(components) == [FieldPath EXCEPT !.components = components]

FileNameField == [FieldPath EXCEPT !.include_filename = TRUE]

\* A variable-prefixed field as the parser's post-pass marks it.
VarField(components) ==
  [FieldPath EXCEPT !.components = components, !.is_variable_ref = TRUE,
                    !.variable_name = components[1]]

\* An aggregate SELECT field.
AggField(agg, arg, components) ==
  [FieldPath EXCEPT !.aggregate = agg, !.aggregate_arg = arg,
                    !.components = components]

CountStarField == [FieldPath EXCEPT !.aggregate = "COUNT", !.is_count_star = TRUE]

\* FOR e IN emp
ForEmp ==
  [variable |-> sE, path |-> Field(<<sEmp>>), position_var |-> <<>>,
   has_position |-> FALSE]

\* Bounds of the directories and queries.
MaxFiles  == 2
MaxLimit  == 2
MaxOffset == 2

\* The files a directory can hold at position i: each document, readable,
\* or a file that fails to load.
FilesAt(i) ==
  {File(i, TRUE, Roots[d]) : d \in 1..Len(Roots)} \cup {File(i, FALSE, Unreadable)}

\* The directories of at most n files.
RECURSIVE Directories(_)
Directories(n) ==
  IF n = 0 THEN {<<>>}
  ELSE LET shorter == Directories(n - 1)
       IN shorter \cup {Append(d, f) : d \in {x \in shorter : Len(x) = n - 1},
                                       f \in FilesAt(n)}

\* v > 5, numeric.
WhereVGreater5 ==
  [kind |-> "cond", field |-> Field(<<sV>>), op |-> "GREATER_THAN",
   value |-> s5, is_numeric |-> TRUE, values |-> <<>>]

\* The SELECT / FOR / WHERE parts of the queries without aggregates.
PlainBases ==
  { [Query EXCEPT !.select_fields = <<FileNameField, Field(<<sEmp, sK>>)>>],
    [Query EXCEPT !.select_fields = <<FileNameField, VarField(<<sE, sK>>),
                                      VarField(<<sE, sV>>)>>,
                  !.for_clauses = <<ForEmp>>],
    [Query EXCEPT !.select_fields = <<Field(<<sK>>), Field(<<sV>>)>>,
                  !.where = WhereVGreater5] }

OrderChoices ==
  {<<>>, <<OrderBy(sK, "ASC")>>, <<OrderBy(sK, "DESC")>>, <<OrderBy(sV, "ASC")>>}

PlainQueries ==
  { [b EXCEPT !.order_by_fields = o, !.limit = l, !.offset = off, !.distinct = d] :
      b \in PlainBases, o \in OrderChoices, l \in -1..MaxLimit,
      off \in -1..MaxOffset, d \in BOOLEAN }

\* Aggregate queries: over a field path (the shape execute reads: the
\* argument in components), COUNT(*), and over a FOR variable (the shape the
\* parser builds: the argument in aggregate_arg, components empty).
AggregateQueries ==
  { [Query EXCEPT !.select_fields = <<AggField(a, <<>>, <<sEmp, sV>>)>>,
                  !.has_aggregates = TRUE] : a \in {"COUNT", "SUM"} }
  \cup
  { [Query EXCEPT !.select_fields = <<CountStarField>>, !.has_aggregates = TRUE],
    [Query EXCEPT !.select_fields = <<AggField("SUM", sEV, <<>>)>>,
                  !.for_clauses = <<ForEmp>>, !.has_aggregates = TRUE] }

----------------------------------------------------------------------------
(* QueryExecutor::execute                                                  *)

\* hasAggregates, as execute computes it from the SELECT list.
HasAggregates(q) ==
  \E i \in 1..Len(q.select_fields) : q.select_fields[i].aggregate # "NONE"

\* tempQuery: the aggregate arguments as plain fields; no FOR clauses, no
\* WHERE, no GROUP BY.
TempQuery(q) ==
  [Query EXCEPT !.select_fields =
     [f \in 1..Len(SelectSeq(q.select_fields,
                             LAMBDA x : x.aggregate # "NONE" /\ ~x.is_count_star)) |->
        [SelectSeq(q.select_fields,
                   LAMBDA x : x.aggregate # "NONE" /\ ~x.is_count_star)[f]
           EXCEPT !.aggregate = "NONE"]]]

isOnlyCountStar(q) == TempQuery(q).select_fields = <<>>

\* The rows one file adds to allResults in execute; threw = TRUE when the
\* exception handler ran instead.
ExecuteFileRows(file, q) ==
  IF ~HasAggregates(q) THEN processFile(file, q)
  ELSE IF ~isOnlyCountStar(q) THEN processFile(file, TempQuery(q))
  ELSE IF file.loads THEN [threw |-> FALSE, rows |-> << <<>> >>]
  ELSE [threw |-> TRUE, rows |-> <<>>]

\* The single row of the aggregate values.
AggregateRow(q, rows) ==
  [i \in 1..Len(q.select_fields) |->
     Pair(ExecAggFieldName(q.select_fields[i]),
          computeAggregate(q.select_fields[i], rows))]

\* The files are read-only during a call and processing a file depends on
\* the file and the query alone: its outcome is fixed when the call starts.
Outcomes(files, q) == [i \in 1..Len(files) |-> ExecuteFileRows(files[i], q)]

InitExecute ==
  /\ entry = "execute"
  /\ query \in PlainQueries \cup AggregateQueries
  /\ xmlFiles \in Directories(MaxFiles)
  /\ fileOutcome = Outcomes(xmlFiles, query)
  /\ hwThreads = 0
  /\ pc = "start"
  /\ fileIdx = 1
  /\ allResults = <<>>
  /\ ThreadsIdle
  /\ RewriterIdle
  /\ BinderIdle
  /\ ParserIdle

\* getXmlFiles, the empty-directory return and the aggregate test.
ExecStart ==
  /\ entry = "execute"
  /\ pc = "start"
  /\ pc' = IF xmlFiles = <<>> THEN "done" ELSE "files"
  /\ UNCHANGED <<rewriterVars, binderVars, logVars, entry, query, xmlFiles, fileOutcome, fileIdx, allResults,
                 threadVars, parserVars>>

\* One iteration of the file loop: processFile and the insert, or the catch.
ExecFile ==
  /\ entry = "execute"
  /\ pc = "files"
  /\ fileIdx <= Len(xmlFiles)
  /\ LET r == fileOutcome[fileIdx]
     IN allResults' = IF r.threw THEN allResults ELSE allResults \o r.rows
  /\ fileIdx' = fileIdx + 1
  /\ pc' = IF fileIdx < Len(xmlFiles) THEN "files"
           ELSE IF HasAggregates(query) THEN "aggregate" ELSE "order"
  /\ UNCHANGED <<rewriterVars, binderVars, logVars, entry, query, xmlFiles, fileOutcome, threadVars, parserVars>>

\* "Now compute aggregates": the aggregate row is the result.  Reading the
\* last component of a field without components is undefined behaviour: the
\* call crashes or computes over an arbitrary column name.
ExecAggregate ==
  /\ entry = "execute"
  /\ pc = "aggregate"
  /\ IF \A i \in 1..Len(query.select_fields) :
          AggregateIsDefined(query.select_fields[i])
     THEN /\ allResults' = <<AggregateRow(query, allResults)>>
          /\ pc' = "done"
     ELSE \/ /\ pc' = "crashed"
             /\ UNCHANGED allResults
          \/ /\ pc' = "done"
             /\ \E garbage \in {<<>>, sV} :
                  allResults' =
                    <<AggregateRow(
                        [query EXCEPT !.select_fields =
                           [i \in 1..Len(query.select_fields) |->
                              IF AggregateIsDefined(query.select_fields[i])
                              THEN query.select_fields[i]
                              ELSE [query.select_fields[i] EXCEPT
                                      !.components = <<garbage>>]]],
                        allResults)>>
  /\ UNCHANGED <<rewriterVars, binderVars, logVars, entry, query, xmlFiles, fileOutcome, fileIdx, threadVars,
                 parserVars>>

ExecOrderBy ==
  /\ entry = "execute"
  /\ pc = "order"
  /\ allResults' = ApplyOrderBy("execute", query, allResults)
  /\ pc' = "distinct"
  /\ UNCHANGED <<rewriterVars, binderVars, logVars, entry, query, xmlFiles, fileOutcome, fileIdx, threadVars,
                 parserVars>>

ExecDistinct ==
  /\ entry = "execute"
  /\ pc = "distinct"
  /\ allResults' = ApplyDistinct(query, allResults)
  /\ pc' = "offset"
  /\ UNCHANGED <<rewriterVars, binderVars, logVars, entry, query, xmlFiles, fileOutcome, fileIdx, threadVars,
                 parserVars>>

ExecOffset ==
  /\ entry = "execute"
  /\ pc = "offset"
  /\ allResults' = ApplyOffset(query, allResults)
  /\ pc' = "limit"
  /\ UNCHANGED <<rewriterVars, binderVars, logVars, entry, query, xmlFiles, fileOutcome, fileIdx, threadVars,
                 parserVars>>

ExecLimit ==
  /\ entry = "execute"
  /\ pc = "limit"
  /\ allResults' = ApplyLimit(query, allResults)
  /\ pc' = "done"
  /\ UNCHANGED <<rewriterVars, binderVars, logVars, entry, query, xmlFiles, fileOutcome, fileIdx, threadVars,
                 parserVars>>

NextExecute ==
  \/ ExecStart
  \/ ExecFile
  \/ ExecAggregate
  \/ ExecOrderBy
  \/ ExecDistinct
  \/ ExecOffset
  \/ ExecLimit

----------------------------------------------------------------------------
(* QueryExecutor::executeWithProgress and executeMultithreaded             *)

\* Bounds of the directories of the threaded specification.
MaxProgressFiles == 5
MaxFailures == 1

\* QueryExecutor::shouldUseThreading
ThreadingThreshold == 5

shouldUseThreading(fileCount) == fileCount >= ThreadingThreshold

\* QueryExecutor::getOptimalThreadCount
DefaultThreads == 4
MaxThreads == 16

getOptimalThreadCount(hw) ==
  LET detected == IF hw = 0 THEN DefaultThreads ELSE hw
  IN IF detected < MaxThreads THEN detected ELSE MaxThreads


\* The directory of n files in which exactly the files of `failed` fail to
\* load; the documents repeat in the order of Roots.
ProgressDirectory(n, failed) ==
  [i \in 1..n |->
     IF i \in failed THEN File(i, FALSE, Unreadable)
     ELSE File(i, TRUE, Roots[((i - 1) % Len(Roots)) + 1])]

\* The directories large enough for the worker threads.
ThreadedDirectories ==
  { ProgressDirectory(n, failed) :
      n \in ThreadingThreshold..MaxProgressFiles,
      failed \in {x \in SUBSET (1..MaxProgressFiles) : Cardinality(x) <= MaxFailures} }

\* SELECT FILE_NAME, e.k, e.v FROM d FOR e IN emp
ForQuery ==
  [Query EXCEPT !.select_fields = <<FileNameField, VarField(<<sE, sK>>),
                                    VarField(<<sE, sV>>)>>,
                !.for_clauses = <<ForEmp>>]

ProgressQueries ==
  { ForQuery,
    [ForQuery EXCEPT !.order_by_fields = <<OrderBy(sK, "ASC")>>],
    [ForQuery EXCEPT !.order_by_fields = <<OrderBy(sV, "DESC")>>, !.limit = 2],
    [ForQuery EXCEPT !.limit = 1, !.offset = 1],
    [Query EXCEPT !.select_fields = <<AggField("SUM", sEV, <<>>)>>,
                  !.for_clauses = <<ForEmp>>, !.has_aggregates = TRUE] }

fileCount == Len(xmlFiles)

useThreading == shouldUseThreading(fileCount)

threadCount == IF useThreading THEN getOptimalThreadCount(hwThreads) ELSE 1

Workers == 1..Len(wpc)

inputVars == <<rewriterVars, binderVars, entry, query, xmlFiles, fileOutcome, hwThreads, parserVars>>

mainVars == <<inputVars, logVars>>

ThreadedQueries ==
  { ForQuery, [ForQuery EXCEPT !.order_by_fields = <<OrderBy(sK, "ASC")>>] }

\* The calls of the model: every query on the small directories, which run
\* single-threaded; the threaded queries on the large directories with two
\* hardware threads; and one call where hardware_concurrency() is unknown (0).
ProgressCalls ==
  { [query |-> q, xmlFiles |-> d, hwThreads |-> 2] :
      q \in ProgressQueries, d \in Directories(MaxFiles) }
  \cup
  { [query |-> q, xmlFiles |-> d, hwThreads |-> 2] :
      q \in ThreadedQueries, d \in ThreadedDirectories }
  \cup
  { [query |-> ForQuery, xmlFiles |-> ProgressDirectory(ThreadingThreshold, {}),
     hwThreads |-> 0] }

InitProgress ==
  /\ entry = "executeWithProgress"
  /\ \E c \in ProgressCalls :
       query = c.query /\ xmlFiles = c.xmlFiles /\ hwThreads = c.hwThreads
  /\ fileOutcome = [i \in 1..Len(xmlFiles) |-> processFile(xmlFiles[i], query)]
  /\ pc = "start"
  /\ fileIdx = 1
  /\ allResults = <<>>
  /\ ThreadsIdle
  /\ RewriterIdle
  /\ BinderIdle
  /\ ParserIdle

\* getXmlFiles, the empty-directory return, the threading decision and the
\* launch of the progress thread.
ProgStart ==
  /\ entry = "executeWithProgress"
  /\ pc = "start"
  /\ IF xmlFiles = <<>> THEN pc' = "done" /\ UNCHANGED mpc
     ELSE IF useThreading THEN pc' = "launch" /\ mpc' = "check"
     ELSE pc' = "sequential" /\ UNCHANGED mpc
  /\ UNCHANGED <<mainVars, fileIdx, allResults, wpc, wFileIdx, fileResults,
                 resultsMutex, completed, done, progress>>

\* The loop that launches the worker threads: worker w has threadId w - 1
\* and starts at fileIdx = threadId.
LaunchWorkers ==
  /\ pc = "launch"
  /\ wpc' = [w \in 1..threadCount |-> IF w - 1 < fileCount THEN "load" ELSE "finished"]
  /\ wFileIdx' = [w \in 1..threadCount |-> w - 1]
  /\ fileResults' = [w \in 1..threadCount |-> <<>>]
  /\ processed' = [w \in 1..threadCount |-> <<>>]
  /\ pc' = "join"
  /\ UNCHANGED <<inputVars, fileIdx, allResults, resultsMutex, completed, done,
                 mpc, progress>>

\* processFile(xmlFiles[fileIdx], query) in a worker, outside the lock.
WorkerProcessFile(w) ==
  /\ wpc[w] = "load"
  /\ LET r == fileOutcome[wFileIdx[w] + 1]
     IN IF r.threw
        THEN wpc' = [wpc EXCEPT ![w] = "catch"] /\ UNCHANGED fileResults
        ELSE /\ wpc' = [wpc EXCEPT ![w] = "lock"]
             /\ fileResults' = [fileResults EXCEPT ![w] = r.rows]
  /\ processed' = [processed EXCEPT ![w] = Append(@, wFileIdx[w])]
  /\ UNCHANGED <<inputVars, pc, fileIdx, allResults, wFileIdx, resultsMutex,
                 completed, done, mpc, progress>>

\* A worker that appends without waiting for resultsMutex.
WorkerLockWithoutWaiting(w) ==
  /\ wpc[w] = "lock"
  /\ resultsMutex' = w
  /\ wpc' = [wpc EXCEPT ![w] = "insert"]
  /\ UNCHANGED <<mainVars, pc, fileIdx, allResults, wFileIdx, fileResults,
                 completed, done, mpc, progress>>

\* std::lock_guard<std::mutex> lock(resultsMutex)
WorkerLock(w) ==
  /\ wpc[w] = "lock"
  /\ resultsMutex = NoThread
  /\ resultsMutex' = w
  /\ wpc' = [wpc EXCEPT ![w] = "insert"]
  /\ UNCHANGED <<mainVars, pc, fileIdx, allResults, wFileIdx, fileResults,
                 completed, done, mpc, progress>>

\* A worker that takes the lock once per row instead of once per file.
WorkerInsertRowByRow(w) ==
  /\ wpc[w] = "insert"
  /\ IF fileResults[w] = <<>>
     THEN /\ wpc' = [wpc EXCEPT ![w] = "unlock"]
          /\ UNCHANGED <<allResults, fileResults, resultsMutex>>
     ELSE /\ allResults' = Append(allResults, Head(fileResults[w]))
          /\ fileResults' = [fileResults EXCEPT ![w] = Tail(@)]
          /\ IF Tail(fileResults[w]) = <<>>
             THEN wpc' = [wpc EXCEPT ![w] = "unlock"] /\ UNCHANGED resultsMutex
             ELSE wpc' = [wpc EXCEPT ![w] = "lock"] /\ resultsMutex' = NoThread
  /\ UNCHANGED <<mainVars, pc, fileIdx, wFileIdx, completed, done, mpc, progress>>

\* allResults.insert(allResults.end(), fileResults.begin(), fileResults.end())
WorkerInsert(w) ==
  /\ wpc[w] = "insert"
  /\ allResults' = allResults \o fileResults[w]
  /\ wpc' = [wpc EXCEPT ![w] = "unlock"]
  /\ UNCHANGED <<mainVars, pc, fileIdx, wFileIdx, fileResults, resultsMutex,
                 completed, done, mpc, progress>>

\* The end of the lock_guard scope.
WorkerUnlock(w) ==
  /\ wpc[w] = "unlock"
  /\ resultsMutex' = NoThread
  /\ wpc' = [wpc EXCEPT ![w] = "count"]
  /\ UNCHANGED <<mainVars, pc, fileIdx, allResults, wFileIdx, fileResults,
                 completed, done, mpc, progress>>

\* A worker that steps to the file after the one it processed.
NextFileByOne(w) ==
  /\ wFileIdx' = [wFileIdx EXCEPT ![w] = @ + 1]
  /\ wpc' = [wpc EXCEPT ![w] =
               IF wFileIdx[w] + 1 < fileCount THEN "load" ELSE "finished"]
  /\ fileResults' = [fileResults EXCEPT ![w] = <<>>]

\* The step to the next file of the worker: fileIdx += threadCount and the
\* loop test.
NextFile(w) ==
  /\ wFileIdx' = [wFileIdx EXCEPT ![w] = @ + threadCount]
  /\ wpc' = [wpc EXCEPT ![w] =
               IF wFileIdx[w] + threadCount < fileCount THEN "load" ELSE "finished"]
  /\ fileResults' = [fileResults EXCEPT ![w] = <<>>]

\* (*completed)++ after the insert.
WorkerCompleted(w) ==
  /\ wpc[w] = "count"
  /\ completed' = completed + 1
  /\ NextFile(w)
  /\ UNCHANGED <<mainVars, pc, fileIdx, allResults, resultsMutex, done, mpc,
                 progress>>

\* A catch block that ends the worker instead of going on to its next file.
WorkerCatchAborts(w) ==
  /\ wpc[w] = "catch"
  /\ wpc' = [wpc EXCEPT ![w] = "finished"]
  /\ UNCHANGED <<mainVars, pc, fileIdx, allResults, wFileIdx, fileResults,
                 resultsMutex, completed, done, mpc, progress>>

\* The catch block: the error is logged and the file counted as completed.
WorkerCatch(w) ==
  /\ wpc[w] = "catch"
  /\ completed' = completed + 1
  /\ NextFile(w)
  /\ UNCHANGED <<mainVars, pc, fileIdx, allResults, resultsMutex, done, mpc,
                 progress>>

\* The progress thread: while (!done)
MonitorCheck ==
  /\ mpc = "check"
  /\ mpc' = IF done THEN "exited" ELSE "report"
  /\ UNCHANGED <<mainVars, pc, fileIdx, allResults, wpc, wFileIdx, fileResults,
                 resultsMutex, completed, done, progress>>

\* progressCallback(completed.load(), fileCount, threadCount) and the sleep.
MonitorReport ==
  /\ mpc = "report"
  /\ progress' = completed
  /\ mpc' = "check"
  /\ UNCHANGED <<mainVars, pc, fileIdx, allResults, wpc, wFileIdx, fileResults,
                 resultsMutex, completed, done>>

\* The join loop of executeMultithreaded and its return.
JoinWorkers ==
  /\ pc = "join"
  /\ \A w \in Workers : wpc[w] = "finished"
  /\ pc' = "stop"
  /\ UNCHANGED <<mainVars, fileIdx, allResults, threadVars>>

\* A caller that joins the progress thread without setting done.
StopMonitorWithoutDone ==
  /\ pc = "stop"
  /\ pc' = "joinMonitor"
  /\ UNCHANGED <<mainVars, fileIdx, allResults, threadVars>>

\* done = true
StopMonitor ==
  /\ pc = "stop"
  /\ done' = TRUE
  /\ pc' = "joinMonitor"
  /\ UNCHANGED <<mainVars, fileIdx, allResults, wpc, wFileIdx, fileResults,
                 resultsMutex, completed, mpc, progress>>

\* progressThread.join()
JoinMonitor ==
  /\ pc = "joinMonitor"
  /\ mpc = "exited"
  /\ pc' = "final"
  /\ UNCHANGED <<mainVars, fileIdx, allResults, threadVars>>

\* The final progress update: progressCallback(fileCount, fileCount, ...)
FinalCallback ==
  /\ pc = "final"
  /\ progress' = fileCount
  /\ pc' = "order"
  /\ UNCHANGED <<mainVars, fileIdx, allResults, wpc, wFileIdx, fileResults,
                 resultsMutex, completed, done, mpc>>

\* One iteration of the single-threaded loop: processFile, the insert and
\* progressCallback(i + 1, ...), or the catch.
SequentialFile ==
  /\ entry = "executeWithProgress"
  /\ pc = "sequential"
  /\ fileIdx <= fileCount
  /\ LET r == fileOutcome[fileIdx]
     IN IF r.threw THEN UNCHANGED <<allResults, progress>>
        ELSE allResults' = allResults \o r.rows /\ progress' = fileIdx
  /\ fileIdx' = fileIdx + 1
  /\ pc' = IF fileIdx < fileCount THEN "sequential" ELSE "order"
  /\ UNCHANGED <<mainVars, wpc, wFileIdx, fileResults, resultsMutex, completed,
                 done, mpc>>

ProgOrderBy ==
  /\ entry = "executeWithProgress"
  /\ pc = "order"
  /\ allResults' = ApplyOrderBy("progress", query, allResults)
  /\ pc' = "limit"
  /\ UNCHANGED <<mainVars, fileIdx, threadVars>>

ProgLimit ==
  /\ entry = "executeWithProgress"
  /\ pc = "limit"
  /\ allResults' = ApplyLimit(query, allResults)
  /\ pc' = "done"
  /\ UNCHANGED <<mainVars, fileIdx, threadVars>>

WorkerStep(w) ==
  /\ w \in Workers
  /\ \/ WorkerProcessFile(w)
     \/ WorkerLock(w)
     \/ WorkerInsert(w)
     \/ WorkerUnlock(w)
     \/ WorkerCompleted(w)
     \/ WorkerCatch(w)

MainStep ==
  \/ ProgStart
  \/ LaunchWorkers
  \/ JoinWorkers
  \/ StopMonitor
  \/ JoinMonitor
  \/ FinalCallback
  \/ SequentialFile
  \/ ProgOrderBy
  \/ ProgLimit

MonitorStep == MonitorCheck \/ MonitorReport

NextProgress ==
  \/ MainStep
  \/ MonitorStep
  \/ \E w \in Workers : WorkerStep(w)

SpecProgress == InitProgress /\ [][NextProgress]_vars

\* Both entry points.
Init == InitExecute \/ InitProgress

Next == NextExecute \/ NextProgress

Spec == Init /\ [][Next]_vars

\* The scheduler keeps running the threads: the calling thread and the
\* progress thread each take the step they can take, and while some worker
\* can take a step some worker does.
\* The calls whose rows are returned in merge order.
InitUnordered == InitProgress /\ query.order_by_fields = <<>>

FairSpecProgress ==
  /\ InitUnordered
  /\ [][NextProgress]_vars
  /\ WF_vars(MainStep)
  /\ WF_vars(MonitorStep)
  /\ WF_vars(\E w \in Workers : WorkerStep(w))

----------------------------------------------------------------------------
(* Reference results of a call                                             *)

\* The rows one file contributes under the entry point of the call.
FileRows(file, q) ==
  IF ~file.loads THEN <<>>
  ELSE IF entry = "execute" THEN ExecuteFileRows(file, q).rows
  ELSE processFile(file, q).rows

\* The rows of the files from the i-th on, file after file.
RECURSIVE RowsInFileOrder(_, _, _)
RowsInFileOrder(files, q, i) ==
  IF i > Len(files) THEN <<>>
  ELSE FileRows(files[i], q) \o RowsInFileOrder(files, q, i + 1)

Occurrences(x, rows) == Cardinality({i \in 1..Len(rows) : rows[i] = x})

SameMultiset(a, b) ==
  /\ Len(a) = Len(b)
  /\ \A i \in 1..Len(a) : Occurrences(a[i], a) = Occurrences(a[i], b)

\* The batches of the files of the call from the i-th on, one per file.
RECURSIVE BatchesFrom(_)
BatchesFrom(i) ==
  IF i > fileCount THEN <<>>
  ELSE <<FileRows(xmlFiles[i], query)>> \o BatchesFrom(i + 1)

\* rows is the concatenation, in some order, of the whole non-empty batches
\* of some of the files of fileSet, each file at most once.
RECURSIVE IsBlockConcat(_, _, _)
IsBlockConcat(rows, fileSet, batches) ==
  \/ rows = <<>>
  \/ \E i \in fileSet :
       /\ batches[i] # <<>>
       /\ Len(batches[i]) <= Len(rows)
       /\ SubSeq(rows, 1, Len(batches[i])) = batches[i]
       /\ IsBlockConcat(SubSeq(rows, Len(batches[i]) + 1, Len(rows)),
                        fileSet \ {i}, batches)

Min(a, b) == IF a < b THEN a ELSE b

\* The rows [O, O + L) of a row list.
Slice(rows, O, L) ==
  [i \in 1..Max(0, Min(L, Len(rows) - O)) |-> rows[O + i]]

Multithreaded == entry = "executeWithProgress" /\ useThreading

SingleThreaded == entry = "executeWithProgress" /\ ~useThreading

----------------------------------------------------------------------------
(* C1 *)

\* What the single-threaded path of executeWithProgress returns.
SequentialOutcome ==
  ApplyLimit(query, ApplyOrderBy("progress", query, RowsInFileOrder(xmlFiles, query, 1)))

\* C1: for a query with ORDER BY, the multithreaded run merges the same
\* multiset of rows under every interleaving of the workers, and returns the
\* same sorted row list as processing the files sequentially.
C1_SortedOutputIndependentOfInterleaving ==
  /\ (Multithreaded /\ pc = "stop" /\ query.order_by_fields # <<>>)
       => SameMultiset(allResults, RowsInFileOrder(xmlFiles, query, 1))
  /\ (Multithreaded /\ pc = "done" /\ query.order_by_fields # <<>>)
       => allResults = SequentialOutcome

----------------------------------------------------------------------------
(* C2 *)

\* C2: a file that fails to load or to process adds no row and does not
\* stop the query: when the file loop of execute, the single-threaded loop
\* of executeWithProgress or the workers of executeMultithreaded are over,
\* every file has been visited and the merged rows are exactly the rows of
\* the files that succeeded.
C2_FailedFileContributesNothing ==
  /\ (entry = "execute" /\ pc \in {"order", "aggregate"})
       => /\ fileIdx = fileCount + 1
          /\ allResults = RowsInFileOrder(xmlFiles, query, 1)
  /\ (SingleThreaded /\ pc = "order")
       => /\ fileIdx = fileCount + 1
          /\ allResults = RowsInFileOrder(xmlFiles, query, 1)
  /\ (Multithreaded /\ pc = "stop")
       => /\ completed = fileCount
          /\ SameMultiset(allResults, RowsInFileOrder(xmlFiles, query, 1))

\* The workers are over in a directory where a file failed and others gave rows.
C2_Witness ==
  /\ Multithreaded /\ pc = "stop"
  /\ \E i \in 1..fileCount : ~xmlFiles[i].loads
  /\ allResults # <<>>

----------------------------------------------------------------------------
(* C3 *)

\* C3: in the multithreaded merge the rows of one file are always one
\* contiguous block of allResults, in the order processFile produced them;
\* only the order of the blocks varies, and when the workers are over every
\* file that gave rows has its block.
C3_FileRowsAreContiguousBlocks ==
  (Multithreaded /\ pc \in {"launch", "join", "stop"})
    => LET batches == BatchesFrom(1)
       IN /\ IsBlockConcat(allResults, 1..fileCount, batches)
          /\ pc = "stop" =>
               Len(allResults) = Len(RowsInFileOrder(xmlFiles, query, 1))

\* The workers are over and the blocks are not in directory order.
C3_Witness ==
  /\ Multithreaded /\ pc = "stop"
  /\ allResults # RowsInFileOrder(xmlFiles, query, 1)
  /\ \E i \in 1..fileCount : Len(FileRows(xmlFiles[i], query)) >= 2

----------------------------------------------------------------------------
(* C4 *)

\* The state in which a multithreaded call has returned.
MultithreadedReturned ==
  /\ pc = "done"
  /\ completed = fileCount
  /\ \A w \in Workers : wpc[w] = "finished" /\ wFileIdx[w] >= fileCount
  /\ done
  /\ mpc = "exited"
  /\ resultsMutex = NoThread

\* C4: a multithreaded executeWithProgress call always returns, and when it
\* does every dispatched file has been processed, every worker has been
\* joined and the progress thread has seen done and exited.
C4_MultithreadedCallTerminates ==
  /\ (Multithreaded /\ pc = "start") ~> MultithreadedReturned
  /\ []((Multithreaded /\ pc = "done") => MultithreadedReturned)

\* A multithreaded call has returned after the progress thread reported.
C4_Witness ==
  /\ Multithreaded /\ MultithreadedReturned
  /\ progress = fileCount
  /\ Len(allResults) > 0

----------------------------------------------------------------------------
(* C5 *)

\* The full ordered result of a call that runs its files in directory order.
FullResult ==
  IF entry = "execute"
  THEN ApplyDistinct(query,
         ApplyOrderBy("execute", query, RowsInFileOrder(xmlFiles, query, 1)))
  ELSE ApplyOrderBy("progress", query, RowsInFileOrder(xmlFiles, query, 1))

\* C5: with LIMIT L and OFFSET O both given, a query without aggregates
\* returns the rows [O, O + L) of the full ordered result, max(0, min(L, N - O))
\* rows, from execute and from executeWithProgress.
C5_LimitOffsetSlice ==
  (/\ pc = "done"
   /\ entry = "execute" \/ SingleThreaded
   /\ ~HasAggregates(query)
   /\ query.limit >= 0 /\ query.offset >= 0)
    => allResults = Slice(FullResult, query.offset, query.limit)

----------------------------------------------------------------------------
(* C6 *)

\* The unaggregated rows of the files from the i-th on: the rows of the
\* nested FOR iteration, or the rows of the aggregate arguments.
RECURSIVE UnaggregatedRows(_, _, _)
UnaggregatedRows(files, q, i) ==
  IF i > Len(files) THEN <<>>
  ELSE (IF ~files[i].loads THEN <<>>
        ELSE IF q.for_clauses # <<>>
        THEN processNestedForClauses(
               RootHandle(files[i]), q,
               [results |-> <<>>, var |-> EmptyMap, pos |-> EmptyMap],
               1, files[i].name, files[i]).results
        ELSE ExecuteFileRows(files[i], q).rows)
       \o UnaggregatedRows(files, q, i + 1)

\* The one row of the aggregates computed over all the files together.
AggregateOverAllFiles(q) ==
  IF q.for_clauses # <<>>
  THEN ForAggregation(q, UnaggregatedRows(xmlFiles, q, 1))[1]
  ELSE AggregateRow(q, UnaggregatedRows(xmlFiles, q, 1))

\* C6: a query with aggregates and no GROUP BY returns exactly one row,
\* computed over the unaggregated rows of all the files read taken together,
\* with or without FOR clauses, from execute and from executeWithProgress.
C6_OneAggregateRowForTheQuery ==
  (/\ pc = "done"
   /\ HasAggregates(query) /\ query.group_by_fields = <<>>
   /\ \E i \in 1..fileCount : xmlFiles[i].loads)
    => allResults = <<AggregateOverAllFiles(query)>>

----------------------------------------------------------------------------
(* Aggregation calls: execute (computeAggregate) and the single-threaded   *)
(* executeWithProgress (the FOR-clause aggregation) on one file            *)

\* Bound of the documents of the aggregation calls.
MaxEmps == 3

\* The <emp> elements of these documents: numeric, non-numeric and empty
\* values, empty and non-empty keys.
AggEmps ==
  {Emp(sA, s10), Emp(sA, s20), Emp(sA, sAbc), Emp(sA, <<>>), Emp(<<>>, s10),
   Emp(<<>>, sAbc)}

\* The sequences of at most n elements of AggEmps.
RECURSIVE EmpLists(_)
EmpLists(n) ==
  IF n = 0 THEN {<<>>}
  ELSE LET shorter == EmpLists(n - 1)
       IN shorter \cup {Append(l, e) : l \in {x \in shorter : Len(x) = n - 1},
                                       e \in AggEmps}

NumericAggregates == {"SUM", "AVG", "MIN", "MAX"}

\* SELECT agg(emp.v) FROM d, for execute.
ExecuteAggQuery(agg) ==
  [Query EXCEPT !.select_fields = <<AggField(agg, <<>>, <<sEmp, sV>>)>>,
                !.has_aggregates = TRUE]

\* SELECT agg(e.v) FROM d FOR e IN emp [GROUP BY ...]
ForAggQuery(agg, groupBy) ==
  [Query EXCEPT !.select_fields = <<AggField(agg, sEV, <<>>)>>,
                !.for_clauses = <<ForEmp>>, !.has_aggregates = TRUE,
                !.group_by_fields = groupBy]

AggCalls ==
  { [entry |-> "execute", query |-> ExecuteAggQuery(a)] : a \in NumericAggregates }
  \cup
  { [entry |-> "executeWithProgress", query |-> ForAggQuery(a, <<>>)] :
      a \in NumericAggregates }
  \cup
  { [entry |-> "executeWithProgress", query |-> ForAggQuery("SUM", g)] :
      g \in {<<sEK>>, <<sEK, sEV>>} }

InitAgg ==
  /\ \E c \in AggCalls : entry = c.entry /\ query = c.query
  /\ \E emps \in EmpLists(MaxEmps) : xmlFiles = <<File(1, TRUE, Root(emps))>>
  /\ fileOutcome = [i \in 1..Len(xmlFiles) |->
                      IF entry = "execute" THEN ExecuteFileRows(xmlFiles[i], query)
                      ELSE processFile(xmlFiles[i], query)]
  /\ hwThreads = 2
  /\ pc = "start"
  /\ fileIdx = 1
  /\ allResults = <<>>
  /\ ThreadsIdle
  /\ RewriterIdle
  /\ BinderIdle
  /\ ParserIdle

\* The steps of the two calls on a one-file directory.
NextAgg ==
  \/ ExecStart
  \/ ExecFile
  \/ ExecAggregate
  \/ ProgStart
  \/ SequentialFile
  \/ ProgOrderBy
  \/ ProgLimit

SpecAgg == InitAgg /\ [][NextAgg]_vars

----------------------------------------------------------------------------
(* C7 *)

\* The first value a row holds under a name; <<>> marks its absence, which
\* a value never is.
ValuesNamed(row, name) ==
  LET hits == {j \in 1..Len(row) : row[j].name = name}
  IN IF hits = {} THEN <<>>
     ELSE <<row[CHOOSE j \in hits : \A k \in hits : j <= k].value>>

\* The tuple of GROUP BY values of an unaggregated row.
TupleOf(row, q) ==
  [i \in 1..Len(q.group_by_fields) |->
     ValuesNamed(row, sGROUP_BY \o q.group_by_fields[i])]

\* The tuple a result row reports under the GROUP BY field names.
ReportedTuple(row, q) ==
  [i \in 1..Len(q.group_by_fields) |-> ValuesNamed(row, q.group_by_fields[i])]

\* The aggregate pairs of a result row.
ReportedAggregates(row, q) ==
  SelectSeq(row, LAMBDA p : \A i \in 1..Len(q.group_by_fields) :
                              p.name # q.group_by_fields[i])

\* C7: an aggregate query with GROUP BY returns exactly one row per distinct
\* tuple of GROUP BY values among the unaggregated rows; the row reports that
\* tuple, and its aggregates are computed over exactly the rows with that
\* tuple, whatever the values, empty ones included.
C7_OneRowPerGroupByTuple ==
  (pc = "done" /\ HasAggregates(query) /\ query.group_by_fields # <<>>)
    => LET rows   == UnaggregatedRows(xmlFiles, query, 1)
           tuples == {TupleOf(rows[i], query) : i \in 1..Len(rows)}
       IN /\ Len(allResults) = Cardinality(tuples)
          /\ \A t \in tuples :
               \E j \in 1..Len(allResults) :
                 /\ ReportedTuple(allResults[j], query) = t
                 /\ ReportedAggregates(allResults[j], query) =
                      ForAggregatePairs(
                        query.select_fields, 1,
                        SelectSeq(rows, LAMBDA r : TupleOf(r, query) = t), TRUE)

----------------------------------------------------------------------------
(* C9 *)

\* The texts of the <v> children of the <emp> elements of a document.
ValuesOfV(root) == [i \in 1..Len(root.children) |-> root.children[i].children[2].text]

\* The numbers among the values, in order: the values std::stod accepts.
RECURSIVE ParsableNumbers(_)
ParsableNumbers(values) ==
  IF values = <<>> THEN <<>>
  ELSE (IF Stod(Head(values)).ok THEN <<Stod(Head(values)).val>> ELSE <<>>)
         \o ParsableNumbers(Tail(values))

RECURSIVE Total(_)
Total(nums) == IF nums = <<>> THEN 0 ELSE nums[Len(nums)] + Total(SubSeq(nums, 1, Len(nums) - 1))

\* The aggregate of a non-empty list of numbers.
ReferenceAggregate(agg, nums) ==
  CASE agg = "SUM" -> Total(nums)
    [] agg = "AVG" -> DivRound(Total(nums), Len(nums))
    [] agg = "MIN" -> CHOOSE m \in {nums[i] : i \in 1..Len(nums)} :
                        \A i \in 1..Len(nums) : m <= nums[i]
    [] agg = "MAX" -> CHOOSE m \in {nums[i] : i \in 1..Len(nums)} :
                        \A i \in 1..Len(nums) : m >= nums[i]

\* C9: SUM, AVG, MIN and MAX are computed over exactly the values that parse
\* as numbers, the others skipped, and SUM and AVG over no parsable value
\* give 0; computeAggregate (execute) and the FOR-clause aggregation
\* (executeWithProgress, which aggregates once a file gave a row) agree.
C9_AggregatesSkipUnparsableValues ==
  (/\ pc = "done"
   /\ HasAggregates(query) /\ query.group_by_fields = <<>>
   /\ Len(xmlFiles) = 1
   /\ query.select_fields[1].aggregate \in NumericAggregates
   /\ entry = "execute" \/ xmlFiles[1].root.children # <<>>)
    => LET agg  == query.select_fields[1].aggregate
           nums == ParsableNumbers(ValuesOfV(xmlFiles[1].root))
       IN /\ Len(allResults) = 1
          /\ Len(allResults[1]) = 1
          /\ nums # <<>> =>
               allResults[1][1].value = DoubleToString(ReferenceAggregate(agg, nums))
          /\ (nums = <<>> /\ agg \in {"SUM", "AVG"}) =>
               Stod(allResults[1][1].value) = [ok |-> TRUE, val |-> 0]

s30 == <<"3", "0", ".", "0", "0", "0", "0", "0", "0">>

\* SUM over the values 10, abc, 20 of a FOR query has given 30.
C9_Witness ==
  /\ pc = "done"
  /\ entry = "executeWithProgress"
  /\ query = ForAggQuery("SUM", <<>>)
  /\ Len(xmlFiles) = 1
  /\ ValuesOfV(xmlFiles[1].root) = <<s10, sAbc, s20>>
  /\ allResults = << <<Pair(ForAggFieldName(query.select_fields[1]), s30)>> >>

----------------------------------------------------------------------------
(* executeQuery (main.cpp): tokenize, parse, execute                       *)

\* Bound of the WHERE expressions of the query texts.
MaxConds == 3

\* The conditions of the WHERE expressions, as written and as parsed.
CondTexts ==
  <<<<"k", " ", "=", " ", "'", "a", "'">>,
    <<"v", " ", ">", " ", "5">>,
    <<"v", " ", "=", " ", "1", "0">>,
    <<"k", " ", "!", "=", " ", "'", "b", "'">>>>

Conds ==
  <<Condition(Field(<<sK>>), "EQUALS", sA, FALSE),
    Condition(Field(<<sV>>), "GREATER_THAN", s5, TRUE),
    Condition(Field(<<sV>>), "EQUALS", s10, TRUE),
    Condition(Field(<<sK>>), "NOT_EQUALS", sB, FALSE)>>

\* The expression trees over the conditions lo..hi, in this order.
RECURSIVE TreesOver(_, _)
TreesOver(lo, hi) ==
  IF lo = hi THEN {Conds[lo]}
  ELSE UNION { {Logical(op, l, r) : op \in {"AND", "OR"},
                                    l \in TreesOver(lo, m),
                                    r \in TreesOver(m + 1, hi)} :
               m \in lo..(hi - 1) }

WhereTrees == UNION {TreesOver(1, n) : n \in 1..MaxConds}

\* The text of a tree.  With minimal parentheses an operand is parenthesised
\* only where the tree would otherwise read differently: an OR under an AND,
\* and a right operand with the operator of its parent.  With full
\* parentheses every AND / OR operand is parenthesised.
RECURSIVE WhereText(_, _)
WhereText(t, full) ==
  IF t.kind = "cond"
  THEN CondTexts[CHOOSE i \in 1..Len(Conds) : Conds[i] = t]
  ELSE LET operand(s, right) ==
             IF s.kind = "logical"
                /\ (full \/ (t.op = "AND" /\ s.op = "OR") \/ (right /\ s.op = t.op))
             THEN <<"(">> \o WhereText(s, full) \o <<")">>
             ELSE WhereText(s, full)
       IN operand(t.left, FALSE)
            \o (IF t.op = "AND" THEN <<" ", "A", "N", "D", " ">> ELSE <<" ", "O", "R", " ">>)
            \o operand(t.right, TRUE)

sSelectWhere == <<"S", "E", "L", "E", "C", "T", " ", "k", ",", " ", "v", " ", "F", "R", "O", "M", " ", "d", " ", "W", "H", "E", "R", "E", " ">>

WhereQueryText(t, full) == sSelectWhere \o WhereText(t, full)

sCountStarQuery == <<"S", "E", "L", "E", "C", "T", " ", "C", "O", "U", "N", "T", "(", "*", ")", " ", "F", "R", "O", "M", " ", "d">>

\* The query texts: the WHERE queries, COUNT(*), and queries with the other
\* clauses, well-formed and not.
QueryTexts ==
  { WhereQueryText(t, full) : t \in WhereTrees, full \in BOOLEAN }
  \cup
  { sCountStarQuery,
    <<"S", "E", "L", "E", "C", "T", " ", "F", "I", "L", "E", "_", "N", "A", "M", "E", ",", " ", "e", "m", "p", ".", "k", " ", "F", "R", "O", "M", " ", "d", " ", "O", "R", "D", "E", "R", " ", "B", "Y", " ", "k", " ", "D", "E", "S", "C", " ", "L", "I", "M", "I", "T", " ", "1">>,
    <<"s", "e", "l", "e", "c", "t", " ", "k", " ", "f", "r", "o", "m", " ", "d", "/", "x", ".", "x", "m", "l", " ", "w", "h", "e", "r", "e", " ", "v", " ", ">", "=", " ", "1", "0", " ", "l", "i", "m", "i", "t", " ", "2">>,
    <<"S", "E", "L", "E", "C", "T", " ", "k", " ", "F", "R", "O", "M", " ", "d", " ", "W", "H", "E", "R", "E", " ", "v", " ", "I", "S", " ", "N", "O", "T", " ", "N", "U", "L", "L">>,
    <<"S", "E", "L", "E", "C", "T", " ", "k", " ", "F", "R", "O", "M", " ", "W", "H", "E", "R", "E", " ", "v", " ", "=", " ", "1">> }

\* The directories of these calls: the small ones, and five files of which
\* none or one fails to load.
ParseDirectories ==
  Directories(1) \cup {ProgressDirectory(ThreadingThreshold, failed) :
                         failed \in {{}, {2}}}

InitParse ==
  /\ input \in QueryTexts
  /\ xmlFiles \in ParseDirectories
  /\ entry = "execute"
  /\ query = Query
  /\ fileOutcome = <<>>
  /\ hwThreads = 0
  /\ pc = "lex"
  /\ fileIdx = 1
  /\ allResults = <<>>
  /\ tokens = <<>>
  /\ parsed = [status |-> "none"]
  /\ ThreadsIdle
  /\ RewriterIdle
  /\ BinderIdle

\* Lexer lexer(query); auto tokens = lexer.tokenize();
Tokenize ==
  /\ pc = "lex"
  /\ tokens' = tokenize(input)
  /\ pc' = "parse"
  /\ UNCHANGED <<rewriterVars, binderVars, logVars, entry, query, xmlFiles, fileOutcome, fileIdx, allResults,
                 threadVars, input, parsed>>

\* Parser parser(tokens); auto ast = parser.parse(); then the call of
\* QueryExecutor::execute, or the catch of ParseError.
Parse ==
  /\ pc = "parse"
  /\ parsed' = parse(tokens)
  /\ IF parsed'.status = "ok"
     THEN /\ query' = parsed'.query
          /\ fileOutcome' = Outcomes(xmlFiles, parsed'.query)
          /\ pc' = "start"
     ELSE /\ pc' = "parseError"
          /\ UNCHANGED <<query, fileOutcome>>
  /\ UNCHANGED <<rewriterVars, binderVars, logVars, entry, xmlFiles, fileIdx, allResults, threadVars, input, tokens>>

\* The steps of executeQuery.  No token list of the Lexer makes parse() set
\* has_aggregates, so execute never reaches its aggregate branch here.
NextParse ==
  \/ Tokenize
  \/ Parse
  \/ ExecStart
  \/ ExecFile
  \/ ExecOrderBy
  \/ ExecDistinct
  \/ ExecOffset
  \/ ExecLimit

SpecParse == InitParse /\ [][NextParse]_vars

----------------------------------------------------------------------------
(* C8 *)

\* The number of files of the directory that load.
LoadableFiles == Cardinality({i \in 1..fileCount : xmlFiles[i].loads})

\* C8: SELECT COUNT(*) FROM a directory, without WHERE, returns exactly one
\* row, whose value is the number of files of the directory that load
\* (5 of five loadable files, 4 if one of them fails).
C8_CountStarCountsLoadableFiles ==
  (input = sCountStarQuery /\ pc \in {"done", "parseError", "crashed"})
    => /\ pc = "done"
       /\ Len(allResults) = 1
       /\ Len(allResults[1]) = 1
       /\ allResults[1][1].value = NatToString(LoadableFiles)

----------------------------------------------------------------------------
(* C10 *)

\* C10: the parser binds AND tighter than OR, takes a parenthesised group as
\* one operand and associates chains of one operator to the left: the WHERE
\* text of every expression tree, written with minimal or with full
\* parentheses, parses to that tree.
C10_WherePrecedenceAndGrouping ==
  \A t \in WhereTrees, full \in BOOLEAN :
    (input = WhereQueryText(t, full) /\ pc \notin {"lex", "parse"})
      => /\ parsed.status = "ok"
         /\ parsed.query.where = t

\* `k = 'a' AND v > 5 OR v = 10` has been parsed to OR(AND(c1, c2), c3).
C10_Witness ==
  /\ input = sSelectWhere \o CondTexts[1] \o <<" ", "A", "N", "D", " ">> \o CondTexts[2] \o <<" ", "O", "R", " ">>
               \o CondTexts[3]
  /\ pc = "start"
  /\ parsed.status = "ok"
  /\ parsed.query.where = Logical("OR", Logical("AND", Conds[1], Conds[2]), Conds[3])

----------------------------------------------------------------------------
(* The Lexer and the Parser on their own: texts and token lists              *)

\* Well-formed query texts.
sFullQuery == <<"S", "E", "L", "E", "C", "T", " ", "a", ",", " ", "F", "I", "L", "E", "_", "N", "A", "M", "E", " ", "F", "R", "O", "M", " ", "d", " ", "W", "H", "E", "R", "E", " ", "(", "a", " ", "=", " ", "1", " ", "O", "R", " ", "b", " ", "!", "=", " ", "'", "x", "'", ")", " ", "A", "N", "D", " ", "c", " ", "I", "S", " ", "N", "O", "T", " ", "N", "U", "L", "L", " ", "O", "R", "D", "E", "R", " ", "B", "Y", " ", "a", " ", "L", "I", "M", "I", "T", " ", "1">>

sForQuery == <<"S", "E", "L", "E", "C", "T", " ", "a", ".", "b", " ", "F", "R", "O", "M", " ", "'", "d", "'", " ", "F", "O", "R", " ", "e", " ", "I", "N", " ", "a", " ", "A", "T", " ", "p", " ", "W", "H", "E", "R", "E", " ", "e", ".", "k", " ", "L", "I", "K", "E", " ", "/", "x", "(", "y", "/", " ", "O", "R", " ", "p", " ", "<", " ", "2">>

sShortQuery == <<"S", "E", "L", "E", "C", "T", " ", "a", " ", "F", "R", "O", "M", " ", "d", "/", "x", ".", "x", "m", "l">>

BaseTexts == {sFullQuery, sForQuery, sShortQuery}

\* One token of every kind the Parser tests, with the text the Lexer gives it
\* (GROUP, FOR, IN, AT, AS and COUNT are kinds the Parser knows).
TokenAlphabet ==
  { Token("IDENTIFIER", <<"a">>, 0), Token("NUMBER", <<"1">>, 0),
    Token("STRING_LITERAL", <<"d">>, 0), Token("INVALID", <<"*">>, 0),
    Token("SELECT", <<"S", "E", "L", "E", "C", "T">>, 0), Token("FROM", <<"F", "R", "O", "M">>, 0), Token("WHERE", <<"W", "H", "E", "R", "E">>, 0),
    Token("AND", <<"A", "N", "D">>, 0), Token("OR", <<"O", "R">>, 0), Token("IS", <<"I", "S">>, 0),
    Token("NOT", <<"N", "O", "T">>, 0), Token("NULL_LITERAL", <<"N", "U", "L", "L">>, 0), Token("LIKE", <<"L", "I", "K", "E">>, 0),
    Token("ORDER", <<"O", "R", "D", "E", "R">>, 0), Token("GROUP", <<"G", "R", "O", "U", "P">>, 0), Token("BY", <<"B", "Y">>, 0),
    Token("LIMIT", <<"L", "I", "M", "I", "T">>, 0), Token("FOR", <<"F", "O", "R">>, 0), Token("IN", <<"I", "N">>, 0),
    Token("AT", <<"A", "T">>, 0), Token("AS", <<"A", "S">>, 0), Token("COUNT", <<"C", "O", "U", "N", "T">>, 0),
    Token("LPAREN", <<"(">>, 0), Token("RPAREN", <<")">>, 0),
    Token("EQUALS", <<"=">>, 0), Token("COMMA", <<",">>, 0),
    Token("DOT", <<".">>, 0), Token("SLASH", <<"/">>, 0),
    Token("END_OF_INPUT", <<>>, 0) }

RemoveAt(s, i) == SubSeq(s, 1, i - 1) \o SubSeq(s, i + 1, Len(s))

InsertAt(s, i, e) == SubSeq(s, 1, i - 1) \o <<e>> \o SubSeq(s, i, Len(s))

\* A token list and the lists one token away from it: one token removed,
\* replaced or inserted (a replacement by the end marker cuts the list short).
OneTokenAway(toks) ==
  {toks}
  \cup {RemoveAt(toks, i) : i \in 1..Len(toks)}
  \cup {[toks EXCEPT ![i] = t] : i \in 1..Len(toks), t \in TokenAlphabet}
  \cup {InsertAt(toks, i, t) : i \in 1..Len(toks), t \in TokenAlphabet}

TokenLists == UNION {OneTokenAway(tokenize(text)) : text \in BaseTexts}

\* Bound of the length of the arbitrary texts.
MaxText == 3

\* The characters of the arbitrary texts: a letter, a digit, the space, the
\* two quotes, characters that start no token ('*', and '!' unless '='
\* follows), and characters of one- and two-character tokens.
LexChars == {"a", "1", " ", "'", "<dquote>", "*", "!", "=", ".", "<"}

\* The texts of at most n characters of LexChars.
RECURSIVE Texts(_)
Texts(n) ==
  IF n = 0 THEN {<<>>}
  ELSE LET shorter == Texts(n - 1)
       IN shorter \cup {Append(t, c) : t \in {x \in shorter : Len(x) = n - 1},
                                        c \in LexChars}

\* The keywords of the query language and their token kinds (TokenType).
QueryKeywords ==
  { [word |-> <<"S", "E", "L", "E", "C", "T">>, type |-> "SELECT"],
    [word |-> <<"F", "R", "O", "M">>, type |-> "FROM"],
    [word |-> <<"W", "H", "E", "R", "E">>, type |-> "WHERE"],
    [word |-> <<"F", "O", "R">>, type |-> "FOR"],
    [word |-> <<"I", "N">>, type |-> "IN"],
    [word |-> <<"A", "T">>, type |-> "AT"],
    [word |-> <<"G", "R", "O", "U", "P">>, type |-> "GROUP"],
    [word |-> <<"B", "Y">>, type |-> "BY"],
    [word |-> <<"O", "R", "D", "E", "R">>, type |-> "ORDER"],
    [word |-> <<"H", "A", "V", "I", "N", "G">>, type |-> "HAVING"],
    [word |-> <<"A", "S">>, type |-> "AS"],
    [word |-> <<"L", "I", "M", "I", "T">>, type |-> "LIMIT"],
    [word |-> <<"O", "F", "F", "S", "E", "T">>, type |-> "OFFSET"],
    [word |-> <<"D", "I", "S", "T", "I", "N", "C", "T">>, type |-> "DISTINCT"],
    [word |-> <<"C", "O", "U", "N", "T">>, type |-> "COUNT"],
    [word |-> <<"S", "U", "M">>, type |-> "SUM"],
    [word |-> <<"A", "V", "G">>, type |-> "AVG"],
    [word |-> <<"M", "I", "N">>, type |-> "MIN"],
    [word |-> <<"M", "A", "X">>, type |-> "MAX"] }

ToLower(c) == IF Code(c) \in 65..90 THEN Ascii[Code(c) + 32 - 31] ELSE c

Lower(word) == [i \in 1..Len(word) |-> ToLower(word[i])]

\* A word with only its first letter in upper case.
Capitalised(word) == [i \in 1..Len(word) |-> IF i = 1 THEN ToUpper(word[i]) ELSE ToLower(word[i])]

\* The keywords in upper, lower and mixed case, and words that are none.
WordTexts ==
  UNION {{k.word, Lower(k.word), Capitalised(k.word)} : k \in QueryKeywords}
  \cup {<<"s", "e", "l", "e", "c", "t", "s">>, <<"_", "f", "r", "o", "m">>, <<"e", "m", "p", "1">>, <<"C", "o", "u", "n", "t", "s">>}

\* The texts given to the Lexer.
LexTexts == BaseTexts \cup Texts(MaxText) \cup WordTexts

InitSyntax ==
  /\ \/ entry = "tokenize" /\ input \in LexTexts /\ tokens = <<>> /\ pc = "lex"
     \/ entry = "parse" /\ input = <<>> /\ tokens \in TokenLists /\ pc = "parse"
  /\ parsed = [status |-> "none"]
  /\ query = Query
  /\ xmlFiles = <<>>
  /\ fileOutcome = <<>>
  /\ hwThreads = 0
  /\ fileIdx = 1
  /\ allResults = <<>>
  /\ ThreadsIdle
  /\ RewriterIdle
  /\ BinderIdle

\* Parser parser(tokens); parser.parse(): the Query, or the ParseError thrown.
ParseTokens ==
  /\ pc = "parse"
  /\ parsed' = parse(tokens)
  /\ pc' = IF parsed'.status = "ok" THEN "parsed" ELSE "parseError"
  /\ UNCHANGED <<rewriterVars, binderVars, logVars, entry, query, xmlFiles, fileOutcome, fileIdx, allResults,
                 threadVars, input, tokens>>

NextSyntax == Tokenize \/ ParseTokens

SpecSyntax == InitSyntax /\ [][NextSyntax]_vars

----------------------------------------------------------------------------
(* C11 *)

\* The index (0-based) of the end marker of a token list: of its first
\* END_OF_INPUT token, or of the end of the list.
EndIndex(toks) ==
  LET ends == {i \in 1..Len(toks) : toks[i].type = "END_OF_INPUT"}
  IN IF ends = {} THEN Len(toks)
     ELSE (CHOOSE i \in ends : \A j \in ends : i <= j) - 1

\* The tokens before the end marker.
BeforeEnd(toks) == SubSeq(toks, 1, EndIndex(toks))

CountOf(toks, types) == Cardinality({i \in 1..Len(toks) : toks[i].type \in types})

ComparisonTokens ==
  {"EQUALS", "NOT_EQUALS", "LESS_THAN", "GREATER_THAN", "LESS_EQUAL", "GREATER_EQUAL"}

\* The number of conditions of a WHERE expression.
RECURSIVE Leaves(_)
Leaves(expr) ==
  CASE expr.kind = "null"    -> 0
    [] expr.kind = "cond"    -> 1
    [] expr.kind = "logical" -> Leaves(expr.left) + Leaves(expr.right)

\* C11: parse throws ParseError or returns a complete Query that consumed
\* every token up to the end marker.  When it returns, the tokens start with
\* SELECT and a select field, hold FROM followed by a path, and every token
\* before the end marker was consumed; outside regex patterns the
\* parentheses are closed, and every condition of the WHERE expression has
\* its comparison operator, between a field and a value, or its IS.
C11_ParseReturnsOnlyCompleteQueries ==
  (pc = "parsed")
    => LET pre   == BeforeEnd(tokens)
           n     == Len(pre)
           froms == {i \in 1..n : pre[i].type = "FROM"}
           q     == parsed.query
       IN /\ parsed.status = "ok"
          /\ ParseClauses(tokens).cur = n
          /\ n >= 4
          /\ pre[1].type = "SELECT"
          /\ \/ pre[2].type \in {"IDENTIFIER", "COUNT", "SUM", "AVG", "MIN", "MAX"}
             \/ pre[2].value = sFILE_NAME
          /\ q.select_fields # <<>>
          /\ \A i \in 1..Len(q.select_fields) :
               \/ q.select_fields[i].components # <<>>
               \/ q.select_fields[i].include_filename
               \/ q.select_fields[i].aggregate # "NONE"
          /\ froms # {}
          /\ LET f == CHOOSE i \in froms : \A j \in froms : i <= j
             IN f < n /\ pre[f + 1].type \in PathTokenTypes \cup {"STRING_LITERAL"}
          /\ CountOf(pre, {"LIKE"}) = 0 =>
               /\ CountOf(pre, {"LPAREN"}) = CountOf(pre, {"RPAREN"})
               /\ \A i \in 1..n :
                    CountOf(SubSeq(pre, 1, i), {"RPAREN"})
                      <= CountOf(SubSeq(pre, 1, i), {"LPAREN"})
               /\ (CountOf(pre, {"WHERE"}) = 0) = (q.where = NullExpr)
               /\ Leaves(q.where) = CountOf(pre, ComparisonTokens \cup {"IS"})
               /\ \A i \in 1..n :
                    pre[i].type \in ComparisonTokens
                      => /\ 1 < i /\ i < n
                         /\ pre[i - 1].type = "IDENTIFIER"
                         /\ pre[i + 1].type \in {"NUMBER", "STRING_LITERAL", "IDENTIFIER"}

\* The full query text, tokenized, has been parsed to a Query.
C11_Witness ==
  /\ pc = "parsed"
  /\ tokens = tokenize(sFullQuery)
  /\ parsed.status = "ok"
  /\ Leaves(parsed.query.where) = 3

----------------------------------------------------------------------------
(* C12 *)

\* The values of the tokens of a list, joined.
RECURSIVE JoinValues(_)
JoinValues(toks) ==
  IF toks = <<>> THEN <<>> ELSE Head(toks).value \o JoinValues(Tail(toks))

QuoteChars == {"'", "<dquote>"}

\* The positions (1-based) of the quotes of a text.
QuotesOf(text) == {i \in 1..Len(text) : text[i] \in QuoteChars}

\* A text with quotes of at most one kind: a character is inside a literal
\* exactly when an odd number of quotes precedes it.
OneKindOfQuote(text) == Cardinality({text[i] : i \in QuotesOf(text)}) <= 1

InsideLiteral(text, i) == Cardinality({j \in QuotesOf(text) : j < i}) % 2 = 1

\* A character that starts no valid token, where it is met outside a literal.
StartsNoToken(text, i) ==
  \/ text[i] = "*"
  \/ text[i] = "!" /\ (i = Len(text) \/ text[i + 1] # "=")

\* C12: tokenize returns, for every text, a token list whose last token, and
\* only its last, is END_OF_INPUT, with the tokens in the order of the text;
\* a text without quotes is, spaces apart, the values of its tokens joined;
\* every character outside a literal that starts no valid token is one
\* INVALID token holding it; and a literal with no closing quote is an
\* INVALID token holding the rest of the text.
C12_TokenizeIsTotal ==
  (entry = "tokenize" /\ pc # "lex")
    => LET n == Len(tokens)
       IN /\ n >= 1
          /\ tokens[n].type = "END_OF_INPUT"
          /\ \A i \in 1..(n - 1) : tokens[i].type # "END_OF_INPUT"
          /\ \A i \in 1..(n - 1) :
               /\ tokens[i].position < Len(input)
               /\ i > 1 => tokens[i - 1].position < tokens[i].position
          /\ QuotesOf(input) = {} =>
               JoinValues(tokens) = SelectSeq(input, LAMBDA c : c # " ")
          /\ OneKindOfQuote(input) =>
               /\ \A i \in 1..Len(input) :
                    (StartsNoToken(input, i) /\ ~InsideLiteral(input, i))
                      => /\ Cardinality({k \in 1..n : tokens[k].position = i - 1
                                                      /\ k < n}) = 1
                         /\ \E k \in 1..(n - 1) :
                              tokens[k] = Token("INVALID", <<input[i]>>, i - 1)
               /\ Cardinality(QuotesOf(input)) % 2 = 1 =>
                    LET open == CHOOSE i \in QuotesOf(input) :
                                  \A j \in QuotesOf(input) : j <= i
                    IN /\ n >= 2
                       /\ tokens[n - 1] =
                            Token("INVALID", SubSeq(input, open + 1, Len(input)),
                                  open - 1)

\* The text 'a* has been tokenized: its literal is not closed.
C12_Witness ==
  /\ entry = "tokenize"
  /\ pc # "lex"
  /\ input = <<"'", "a", "*">>
  /\ tokens = <<Token("INVALID", <<"a", "*">>, 0), Token("END_OF_INPUT", <<>>, 3)>>

----------------------------------------------------------------------------
(* C13 *)

\* A word of the shape of an identifier.
IdentifierShaped(text) ==
  /\ text # <<>>
  /\ IsAlpha(text[1]) \/ text[1] = "_"
  /\ \A i \in 1..Len(text) : IsAlnum(text[i]) \/ text[i] = "_"

\* C13: tokenize gives each of the words SELECT, FROM, WHERE, FOR, IN, AT,
\* GROUP, BY, ORDER, HAVING, AS, LIMIT, OFFSET, DISTINCT, COUNT, SUM, AVG,
\* MIN and MAX, in any letter case, its own token kind, and a word that is
\* no keyword at all the kind IDENTIFIER.
C13_KeywordsHaveTheirOwnKind ==
  (entry = "tokenize" /\ pc # "lex" /\ IdentifierShaped(input))
    => /\ Len(tokens) = 2
       /\ tokens[1].value = input
       /\ \A k \in QueryKeywords :
            Upper(input) = k.word => tokens[1].type = k.type
       /\ ((\A k \in QueryKeywords : Upper(input) # k.word)
           /\ (\A i \in 1..Len(KeywordTable) : Upper(input) # KeywordTable[i].word))
            => tokens[1].type = "IDENTIFIER"

----------------------------------------------------------------------------
(* IS NULL and IS NOT NULL: execute without FOR clauses, and               *)
(* executeWithProgress under FOR e IN emp AT p                             *)

\* Bound of the documents of the IS [NOT] NULL calls.
MaxNullEmps == 2

sP == <<"p">>

\* <emp><v>v</v></emp>: an <emp> without <k>.
EmpWithoutK(v) == Elem(sEmp, <<>>, <<Elem(sV, v, <<>>)>>)

\* The <emp> elements: <k> with text, <k> empty, and no <k>.
NullEmps == {Emp(sA, s10), Emp(<<>>, s20), EmpWithoutK(s5)}

\* The sequences of at most n elements of NullEmps.
RECURSIVE NullEmpLists(_)
NullEmpLists(n) ==
  IF n = 0 THEN {<<>>}
  ELSE LET shorter == NullEmpLists(n - 1)
       IN shorter \cup {Append(l, e) : l \in {x \in shorter : Len(x) = n - 1},
                                       e \in NullEmps}

\* FOR e IN emp AT p
ForEmpAtP == [ForEmp EXCEPT !.position_var = sP, !.has_position = TRUE]

NullOps == {"IS_NULL", "IS_NOT_NULL"}

\* SELECT v FROM d WHERE f IS [NOT] NULL, f one of k and emp.k; and
\* SELECT e.v FROM d FOR e IN emp AT p WHERE f IS [NOT] NULL, f one of e.k
\* (variable-prefixed), k (unprefixed) and p (the position variable), as the
\* parser marks them.
NullCalls ==
  { [entry |-> "execute",
     query |-> [Query EXCEPT !.select_fields = <<Field(<<sV>>)>>,
                             !.where = Condition(f, op, <<>>, FALSE)]] :
      f \in {Field(<<sK>>), Field(<<sEmp, sK>>)}, op \in NullOps }
  \cup
  { [entry |-> "executeWithProgress",
     query |-> [Query EXCEPT !.select_fields = <<VarField(<<sE, sV>>)>>,
                             !.for_clauses = <<ForEmpAtP>>,
                             !.where = Condition(f, op, <<>>, FALSE)]] :
      f \in {VarField(<<sE, sK>>), Field(<<sK>>), VarField(<<sP>>)}, op \in NullOps }

InitNull ==
  /\ \E c \in NullCalls : entry = c.entry /\ query = c.query
  /\ \E emps \in NullEmpLists(MaxNullEmps) : xmlFiles = <<File(1, TRUE, Root(emps))>>
  /\ fileOutcome = [i \in 1..Len(xmlFiles) |->
                      IF entry = "execute" THEN ExecuteFileRows(xmlFiles[i], query)
                      ELSE processFile(xmlFiles[i], query)]
  /\ hwThreads = 2
  /\ pc = "start"
  /\ fileIdx = 1
  /\ allResults = <<>>
  /\ ThreadsIdle
  /\ RewriterIdle
  /\ BinderIdle
  /\ ParserIdle

\* The steps of the two calls for a query without aggregates.
NextPlainCall ==
  \/ ExecStart
  \/ ExecFile
  \/ ExecOrderBy
  \/ ExecDistinct
  \/ ExecOffset
  \/ ExecLimit
  \/ ProgStart
  \/ SequentialFile
  \/ ProgOrderBy
  \/ ProgLimit

SpecNull == InitNull /\ [][NextPlainCall]_vars

----------------------------------------------------------------------------
(* C14 *)

\* Whether a field is NULL for an <emp>: the position variable never is; any
\* other field is when the <emp> has no child of the field's last name, or
\* the child has no text.
FieldIsNull(emp, field, q) ==
  IF isPositionVariable(q, field.components[1]) THEN FALSE
  ELSE LET name == field.components[Len(field.components)]
           kids == SelectSeq(emp.children, LAMBDA c : c.name = name)
       IN kids = <<>> \/ kids[1].text = <<>>

\* The indices of a sequence, in order, that satisfy Keep.
Indices(n, Keep(_)) == SelectSeq([i \in 1..n |-> i], Keep)

\* The rows of the <emp>s before WHERE, one per <emp>: the <v> of the <emp>
\* for the query without FOR clauses, and what the FOR query gives without
\* its WHERE.
RowsBeforeWhere(file, q) ==
  IF q.for_clauses = <<>>
  THEN [i \in 1..Len(file.root.children) |->
          <<Pair(sV, SelectSeq(file.root.children[i].children,
                               LAMBDA c : c.name = sV)[1].text)>>]
  ELSE processFile(file, [q EXCEPT !.where = NullExpr]).rows

\* C14: f IS NOT NULL is the exact negation of f IS NULL, and f IS NULL is
\* true exactly when f resolves to no element or to empty text: of the rows
\* of the <emp>s, one per <emp>, f IS NULL keeps exactly those of the <emp>s
\* whose f is NULL, and f IS NOT NULL exactly the others, for plain WHERE
\* and under FOR for variable-prefixed, unprefixed and position-variable
\* fields.
C14_IsNotNullNegatesIsNull ==
  (pc = "done" /\ query.where.kind = "cond" /\ query.where.op \in NullOps
   /\ Len(xmlFiles) = 1)
    => LET emps == xmlFiles[1].root.children
           all  == RowsBeforeWhere(xmlFiles[1], query)
           kept == Indices(Len(emps),
                           LAMBDA i : FieldIsNull(emps[i], query.where.field, query)
                                        = (query.where.op = "IS_NULL"))
       IN /\ Len(all) = Len(emps)
          /\ allResults = [j \in 1..Len(kept) |-> all[kept[j]]]

----------------------------------------------------------------------------
(* SELECT over nested elements: r/dept/employee/name, no WHERE             *)

\* Bound of the <employee> elements of a <dept>.
MaxEmployees == 2

sDept     == <<"d", "e", "p", "t">>
sEmployee == <<"e", "m", "p", "l", "o", "y", "e", "e">>
sName     == <<"n", "a", "m", "e">>
sNoSuch   == <<"n", "o", "s", "u", "c", "h">>

\* <employee><name>n</name></employee>
Employee(n) == Elem(sEmployee, <<>>, <<Elem(sName, n, <<>>)>>)

\* <dept> employees </dept>
Dept(names) == Elem(sDept, <<>>, [i \in 1..Len(names) |-> Employee(names[i])])

\* The sequences of at most n names.
RECURSIVE NameLists(_)
NameLists(n) ==
  IF n = 0 THEN {<<>>}
  ELSE LET shorter == NameLists(n - 1)
       IN shorter \cup {Append(l, e) : l \in {x \in shorter : Len(x) = n - 1},
                                       e \in {sA, sB}}

\* Documents of one and of two <dept>s.
NestedRoots ==
  {Root(<<Dept(l)>>) : l \in NameLists(MaxEmployees)}
  \cup {Root(<<Dept(l), Dept(m)>>) : l, m \in NameLists(MaxEmployees)}

\* SELECT name, SELECT employee.name, and fields that match no element.
NestedFields ==
  {Field(<<sName>>), Field(<<sEmployee, sName>>), Field(<<sNoSuch>>),
   Field(<<sEmployee, sNoSuch>>)}

InitNested ==
  /\ entry \in {"execute", "executeWithProgress"}
  /\ \E f \in NestedFields : query = [Query EXCEPT !.select_fields = <<f>>]
  /\ \E r \in NestedRoots : xmlFiles = <<File(1, TRUE, r)>>
  /\ fileOutcome = [i \in 1..Len(xmlFiles) |->
                      IF entry = "execute" THEN ExecuteFileRows(xmlFiles[i], query)
                      ELSE processFile(xmlFiles[i], query)]
  /\ hwThreads = 2
  /\ pc = "start"
  /\ fileIdx = 1
  /\ allResults = <<>>
  /\ ThreadsIdle
  /\ RewriterIdle
  /\ BinderIdle
  /\ ParserIdle

SpecNested == InitNested /\ [][NextPlainCall]_vars

----------------------------------------------------------------------------
(* C15 *)

\* The texts of the <name> elements of a document, in document order.
RECURSIVE NamesOfDepts(_)
NamesOfDepts(depts) ==
  IF depts = <<>> THEN <<>>
  ELSE [i \in 1..Len(Head(depts).children) |-> Head(depts).children[i].children[1].text]
         \o NamesOfDepts(Tail(depts))

\* C15: without WHERE, over r/dept/employee/name, the SELECT field name and
\* the SELECT field employee.name both give the texts of the <name>
\* elements; a SELECT field that matches no element gives no value, and the
\* call returns normally.
C15_OneAndTwoComponentFieldsAgree ==
  (pc \in {"done", "crashed"})
    => LET f     == query.select_fields[1]
           names == NamesOfDepts(xmlFiles[1].root.children)
       IN /\ pc = "done"
          /\ f.components[Len(f.components)] = sName
               => allResults = [i \in 1..Len(names) |-> <<Pair(sName, names[i])>>]
          /\ f.components[Len(f.components)] = sNoSuch => allResults = <<>>

----------------------------------------------------------------------------
(* DISTINCT: execute on SELECT emp.k, emp.v                                *)

\* Bound of the documents of the DISTINCT calls.
MaxDistinctEmps == 3

\* The <emp> elements: equal and different pairs of values, and values that
\* hold the characters ':' and '|'.
DistinctEmps ==
  {Emp(sA, sB), Emp(sA, sA), Emp(<<"a", "|", "v", ":", "b">>, <<"c">>), Emp(sA, <<"b", "|", "v", ":", "c">>)}

\* The sequences of at most n elements of DistinctEmps.
RECURSIVE DistinctEmpLists(_)
DistinctEmpLists(n) ==
  IF n = 0 THEN {<<>>}
  ELSE LET shorter == DistinctEmpLists(n - 1)
       IN shorter \cup {Append(l, e) : l \in {x \in shorter : Len(x) = n - 1},
                                       e \in DistinctEmps}

InitDistinct ==
  /\ entry = "execute"
  /\ \E d \in BOOLEAN :
       query = [Query EXCEPT !.select_fields = <<Field(<<sEmp, sK>>), Field(<<sEmp, sV>>)>>,
                             !.distinct = d]
  /\ \E emps \in DistinctEmpLists(MaxDistinctEmps) :
       xmlFiles = <<File(1, TRUE, Root(emps))>>
  /\ fileOutcome = Outcomes(xmlFiles, query)
  /\ hwThreads = 0
  /\ pc = "start"
  /\ fileIdx = 1
  /\ allResults = <<>>
  /\ ThreadsIdle
  /\ RewriterIdle
  /\ BinderIdle
  /\ ParserIdle

\* The steps of execute for a query without aggregates.
NextDistinct ==
  \/ ExecStart
  \/ ExecFile
  \/ ExecOrderBy
  \/ ExecDistinct
  \/ ExecOffset
  \/ ExecLimit

SpecDistinct == InitDistinct /\ [][NextDistinct]_vars

----------------------------------------------------------------------------
(* C16 *)

\* The first occurrences of the rows of a sequence, in order.
FirstOccurrences(rows) ==
  LET kept == Indices(Len(rows), LAMBDA i : \A j \in 1..(i - 1) : rows[j] # rows[i])
  IN [j \in 1..Len(kept) |-> rows[kept[j]]]

\* C16: with DISTINCT, the rows kept before OFFSET and LIMIT are the first
\* occurrences of the rows, in their order: no two kept rows are equal and
\* every distinct row is kept once, two rows being equal only when they have
\* the same names and the same values in the same order, whatever the values.
C16_DistinctKeepsFirstOccurrences ==
  (pc = "offset" /\ query.distinct /\ Len(xmlFiles) = 1)
    => allResults = FirstOccurrences(fileOutcome[1].rows)

----------------------------------------------------------------------------
(* ORDER BY from the query text to the rows: executeQuery                  *)

\* Bound of the documents of the ORDER BY calls.
MaxOrderEmps == 3

sSelectOrderBy == <<"S", "E", "L", "E", "C", "T", " ", "e", "m", "p", ".", "k", ",", " ", "e", "m", "p", ".", "v", " ", "F", "R", "O", "M", " ", "d", " ", "O", "R", "D", "E", "R", " ", "B", "Y", " ">>

sASC  == <<" ", "A", "S", "C">>
sDESC == <<" ", "D", "E", "S", "C">>

\* ORDER BY v and ORDER BY k, without direction, ASC and DESC.
OrderTexts ==
  {sSelectOrderBy \o f \o d : f \in {sK, sV}, d \in {<<>>, sASC, sDESC}}

\* <emp>s whose <v> order differently as numbers (5 < 10 < 20) and as
\* strings ("10" < "20" < "5").
OrderEmps == {Emp(sA, s10), Emp(sB, s5), Emp(sAbc, s20)}

\* The sequences of at most n elements of OrderEmps.
RECURSIVE OrderEmpLists(_)
OrderEmpLists(n) ==
  IF n = 0 THEN {<<>>}
  ELSE LET shorter == OrderEmpLists(n - 1)
       IN shorter \cup {Append(l, e) : l \in {x \in shorter : Len(x) = n - 1},
                                       e \in OrderEmps}

InitOrder ==
  /\ input \in OrderTexts
  /\ \E emps \in OrderEmpLists(MaxOrderEmps) : xmlFiles = <<File(1, TRUE, Root(emps))>>
  /\ entry = "execute"
  /\ query = Query
  /\ fileOutcome = <<>>
  /\ hwThreads = 0
  /\ pc = "lex"
  /\ fileIdx = 1
  /\ allResults = <<>>
  /\ tokens = <<>>
  /\ parsed = [status |-> "none"]
  /\ ThreadsIdle
  /\ RewriterIdle
  /\ BinderIdle

SpecOrder == InitOrder /\ [][NextParse]_vars

----------------------------------------------------------------------------
(* C17 *)

\* The direction and the field a text of OrderTexts writes.
WritesDesc(text) ==
  Len(text) > Len(sDESC) /\ SubSeq(text, Len(text) - Len(sDESC) + 1, Len(text)) = sDESC

OrderFieldOf(text) == <<text[Len(sSelectOrderBy) + 1]>>

\* a strictly before b in ascending order: as numbers when both values parse
\* as numbers, as strings otherwise.
ValueBefore(a, b) ==
  IF Stod(a).ok /\ Stod(b).ok THEN Stod(a).val < Stod(b).val ELSE StrLess(a, b)

\* C17: the rows returned for ORDER BY f [ASC|DESC] are a permutation of the
\* unsorted rows, in ascending order of the value of f when the text writes
\* ASC or no direction and in descending order when it writes DESC, values
\* compared as numbers when both parse as numbers and as strings otherwise.
C17_OrderByHonoursDirection ==
  (input \in OrderTexts /\ pc \in {"done", "parseError", "crashed"})
    => LET f         == OrderFieldOf(input)
           valueOf(row) == ValuesNamed(row, f)[1]
           unsorted  == fileOutcome[1].rows
       IN /\ pc = "done"
          /\ SameMultiset(allResults, unsorted)
          /\ \A i \in 1..(Len(allResults) - 1) :
               IF WritesDesc(input)
               THEN ~ValueBefore(valueOf(allResults[i]), valueOf(allResults[i + 1]))
               ELSE ~ValueBefore(valueOf(allResults[i + 1]), valueOf(allResults[i]))

----------------------------------------------------------------------------
(* DsnSchema and DsnQueryRewriter                                          *)

\* A DsnAttribute: the members the rewriter reads.
DsnAttribute(full_name, short_id) == [full_name |-> full_name, short_id |-> short_id]

\* DsnSchema::addAttribute: full_name_map_[full_name] = attr, and
\* shortcut_map_[short_id].push_back(attr).
addAttribute(s, attr) ==
  [shortcut_map_ |->
     IF attr.short_id \in DOMAIN s.shortcut_map_
     THEN [s.shortcut_map_ EXCEPT ![attr.short_id] = Append(@, attr)]
     ELSE s.shortcut_map_ @@ (attr.short_id :> <<attr>>),
   full_name_map_ |->
     IF attr.full_name \in DOMAIN s.full_name_map_
     THEN [s.full_name_map_ EXCEPT ![attr.full_name] = attr]
     ELSE s.full_name_map_ @@ (attr.full_name :> attr)]

\* DsnSchema::findByShortId
findByShortId(s, short_id) ==
  IF short_id \in DOMAIN s.shortcut_map_ THEN s.shortcut_map_[short_id] ELSE <<>>

\* DsnQueryRewriter::isShortcutPattern: std::regex_match with ^\d{2,}_\d{3,}$
isShortcutPattern(str) ==
  \E u \in 1..Len(str) :
    /\ str[u] = "_"
    /\ u - 1 >= 2
    /\ Len(str) - u >= 3
    /\ \A i \in (1..Len(str)) \ {u} : IsDigit(str[i])

\* DsnQueryRewriter::handleAmbiguousShortcut: what the warning names.
handleAmbiguousShortcut(shortcut, attributes) ==
  [shortcut |-> shortcut,
   candidates |-> [i \in 1..Len(attributes) |-> attributes[i].full_name],
   used |-> attributes[1].full_name]

\* The outcome of an expansion: the value and the warnings written.
Expanded(value, warnings) == [value |-> value, warnings |-> warnings]

\* DsnQueryRewriter::expandComponent
expandComponentIgnoringPrevious(s, component, previousComponent) ==
  LET attributes == findByShortId(s, component)
  IN IF ~isShortcutPattern(component) THEN Expanded(component, <<>>)
     ELSE IF attributes = <<>> THEN Expanded(component, <<>>)
     ELSE IF Len(attributes) = 1 THEN Expanded(attributes[1].full_name, <<>>)
     ELSE Expanded(attributes[1].full_name,
                   <<handleAmbiguousShortcut(component, attributes)>>)

expandComponent(s, component, previousComponent) ==
  LET attributes == findByShortId(s, component)
      sameBloc   == {i \in 1..Len(attributes) :
                       Find(attributes[i].full_name, previousComponent) = 0}
  IN IF ~isShortcutPattern(component) THEN Expanded(component, <<>>)
     ELSE IF attributes = <<>> THEN Expanded(component, <<>>)
     ELSE IF Len(attributes) = 1 THEN Expanded(attributes[1].full_name, <<>>)
     ELSE IF previousComponent # <<>> /\ sameBloc # {}
     THEN Expanded(attributes[CHOOSE i \in sameBloc :
                                \A j \in sameBloc : i <= j].full_name, <<>>)
     ELSE Expanded(attributes[1].full_name,
                   <<handleAmbiguousShortcut(component, attributes)>>)

\* The loop of expandFieldPath over field.components from the i-th on.
RECURSIVE ExpandComponents(_, _, _, _, _, _)
ExpandComponents(s, components, i, previousComponent, newComponents, warnings) ==
  IF i > Len(components) THEN Expanded(newComponents, warnings)
  ELSE LET e == expandComponent(s, components[i], previousComponent)
       IN ExpandComponents(s, components, i + 1, e.value,
                           Append(newComponents, e.value), warnings \o e.warnings)

\* DsnQueryRewriter::expandFieldPath
expandFieldPath(s, field) ==
  LET c == ExpandComponents(s, field.components, 1, <<>>, <<>>, <<>>)
      a == expandComponent(s, field.attribute_name, <<>>)
  IN IF field.is_attribute /\ isShortcutPattern(field.attribute_name)
     THEN Expanded([field EXCEPT !.components = c.value,
                                 !.attribute_name = a.value],
                   c.warnings \o a.warnings)
     ELSE Expanded([field EXCEPT !.components = c.value], c.warnings)

\* DsnQueryRewriter::rewriteWhereExpr
RECURSIVE rewriteWhereExpr(_, _)
rewriteWhereExpr(s, expr) ==
  IF expr.kind = "cond"
  THEN LET f == expandFieldPath(s, expr.field)
       IN Expanded([kind |-> "cond", field |-> f.value, op |-> expr.op,
                    value |-> expr.value, is_numeric |-> expr.is_numeric,
                    values |-> expr.values],
                   f.warnings)
  ELSE IF expr.kind = "logical"
  THEN LET l == rewriteWhereExpr(s, expr.left)
           r == rewriteWhereExpr(s, expr.right)
       IN Expanded([kind |-> "logical", op |-> expr.op, left |-> l.value,
                    right |-> r.value],
                   l.warnings \o r.warnings)
  ELSE Expanded(NullExpr, <<>>)

\* The loop of rewrite over query.select_fields from the i-th on.
RECURSIVE RewriteSelectFields(_, _, _, _, _)
RewriteSelectFields(s, fields, i, newFields, warnings) ==
  IF i > Len(fields) THEN Expanded(newFields, warnings)
  ELSE LET f == expandFieldPath(s, fields[i])
       IN RewriteSelectFields(s, fields, i + 1, Append(newFields, f.value),
                              warnings \o f.warnings)

\* DsnQueryRewriter::rewrite
rewriteDroppingOffset(s, q) ==
  LET fields == RewriteSelectFields(s, q.select_fields, 1, <<>>, <<>>)
      where  == rewriteWhereExpr(s, q.where)
      having == rewriteWhereExpr(s, q.having)
  IN Expanded([Query EXCEPT !.distinct = q.distinct,
                            !.from_path = q.from_path,
                            !.for_clauses = q.for_clauses,
                            !.group_by_fields = q.group_by_fields,
                            !.order_by_fields = q.order_by_fields,
                            !.limit = q.limit,
                            !.has_aggregates = q.has_aggregates,
                            !.select_fields = fields.value,
                            !.where = where.value,
                            !.having = having.value],
              fields.warnings \o where.warnings \o having.warnings)

rewrite(s, q) ==
  LET fields == RewriteSelectFields(s, q.select_fields, 1, <<>>, <<>>)
      where  == rewriteWhereExpr(s, q.where)
      having == rewriteWhereExpr(s, q.having)
  IN Expanded([Query EXCEPT !.distinct = q.distinct,
                            !.from_path = q.from_path,
                            !.for_clauses = q.for_clauses,
                            !.group_by_fields = q.group_by_fields,
                            !.order_by_fields = q.order_by_fields,
                            !.limit = q.limit,
                            !.offset = q.offset,
                            !.has_aggregates = q.has_aggregates,
                            !.select_fields = fields.value,
                            !.where = where.value,
                            !.having = having.value],
              fields.warnings \o where.warnings \o having.warnings)

----------------------------------------------------------------------------
(* The rewriter's calls: a schema is loaded, then a query is rewritten     *)

\* Bound of the number of addAttribute calls that load the schema.
MaxAttributes == 3

sDsnDir    == <<"d", "s", "n">>
s30_001    == <<"3", "0", "_", "0", "0", "1">>
s40_002    == <<"4", "0", "_", "0", "0", "2">>
s99_999    == <<"9", "9", "_", "9", "9", "9">>
s3_001     == <<"3", "_", "0", "0", "1">>
s30_01     == <<"3", "0", "_", "0", "1">>
sBloc30    == <<"S", "2", "1", "_", "G", "0", "0", "_", "3", "0">>
sBloc89    == <<"S", "8", "9", "_", "G", "0", "0", "_", "3", "0">>
sS21_30_001 == <<"S", "2", "1", "_", "G", "0", "0", "_", "3", "0", "_", "0", "0", "1">>
sS89_30_001 == <<"S", "8", "9", "_", "G", "0", "0", "_", "3", "0", "_", "0", "0", "1">>
sS21_40_002 == <<"S", "2", "1", "_", "G", "0", "0", "_", "4", "0", "_", "0", "0", "2">>

\* 30_001 names an attribute of two blocs; 40_002 names one attribute.
DsnAttributes ==
  { DsnAttribute(sS21_30_001, s30_001), DsnAttribute(sS89_30_001, s30_001),
    DsnAttribute(sS21_40_002, s40_002) }

\* The field paths of the queries: shortcuts alone, after a bloc, after
\* another shortcut, after a component that is no bloc, and components that
\* are not of the shortcut shape or not in the schema.
DsnPaths ==
  { <<s30_001>>, <<sBloc30, s30_001>>, <<sBloc89, s30_001>>, <<sK, s30_001>>,
    <<s40_002, s30_001>>, <<s30_001, s30_001>>, <<s40_002>>, <<s99_999>>,
    <<s3_001>>, <<s30_01, sK>>, <<sBloc30, sS21_30_001>> }

AttributeField(components, name) ==
  [FieldPath EXCEPT !.components = components, !.is_attribute = TRUE,
                    !.attribute_name = name]

\* A query that sets every member of Query, with the path p in its SELECT,
\* WHERE and HAVING.
DsnFullQuery(p) ==
  [Query EXCEPT
     !.select_fields = <<Field(p), AttributeField(<<sK>>, s30_001),
                         [Field(<<s40_002>>) EXCEPT !.aggregate = "COUNT",
                                                    !.alias = sV]>>,
     !.distinct = TRUE,
     !.from_path = sDsnDir,
     !.for_clauses = <<[variable |-> sE, path |-> Field(<<s30_001>>),
                        position_var |-> sP, has_position |-> TRUE]>>,
     !.where = Logical("AND",
                       Condition(Field(p), "EQUALS", s5, TRUE),
                       Logical("OR",
                               [Condition(Field(<<s40_002>>), "IN", <<>>, FALSE)
                                  EXCEPT !.values = <<sA, sB>>],
                               Condition(Field(<<sK>>), "IS_NULL", <<>>, FALSE))),
     !.group_by_fields = <<s30_001>>,
     !.having = Condition(Field(p), "GREATER_THAN", s10, TRUE),
     !.order_by_fields = <<OrderBy(s30_001, "DESC")>>,
     !.limit = 5,
     !.offset = 2,
     !.has_aggregates = TRUE]

DsnQueries ==
  {[Query EXCEPT !.select_fields = <<Field(p)>>, !.from_path = sDsnDir] : p \in DsnPaths}
  \cup {DsnFullQuery(p) : p \in DsnPaths}
  \cup {[Query EXCEPT !.select_fields = <<AttributeField(<<sBloc30>>, s30_001),
                                          AttributeField(<<sK>>, sV)>>,
                      !.from_path = sDsnDir]}

InitRewrite ==
  /\ entry = "rewrite"
  /\ query \in DsnQueries
  /\ schema = DsnSchema
  /\ rewritten = Query
  /\ cerr = <<>>
  /\ BinderIdle
  /\ xmlFiles = <<>>
  /\ fileOutcome = <<>>
  /\ hwThreads = 0
  /\ pc = "schema"
  /\ fileIdx = 1
  /\ allResults = <<>>
  /\ ThreadsIdle
  /\ ParserIdle

\* The attributes the schema holds, over all short ids.
AttributeCount(s) ==
  Cardinality({<<id, i>> \in (DOMAIN s.shortcut_map_) \X (1..MaxAttributes) :
                 i <= Len(s.shortcut_map_[id])})

\* One addAttribute call of the schema's loader.
AddAttribute ==
  /\ entry = "rewrite"
  /\ pc = "schema"
  /\ AttributeCount(schema) < MaxAttributes
  /\ \E attr \in DsnAttributes : schema' = addAttribute(schema, attr)
  /\ UNCHANGED <<entry, query, xmlFiles, fileOutcome, pc, fileIdx, allResults,
                 threadVars, parserVars, binderVars, logVars, rewritten, cerr>>

\* rewriter.rewrite(query)
Rewrite ==
  /\ entry = "rewrite"
  /\ pc = "schema"
  /\ rewritten' = rewrite(schema, query).value
  /\ cerr' = rewrite(schema, query).warnings
  /\ pc' = "rewritten"
  /\ UNCHANGED <<entry, query, xmlFiles, fileOutcome, fileIdx, allResults,
                 threadVars, parserVars, binderVars, logVars, schema>>

NextRewrite == AddAttribute \/ Rewrite

SpecRewrite == InitRewrite /\ [][NextRewrite]_vars

----------------------------------------------------------------------------
(* C18 *)

IsPrefixOf(p, str) == Len(p) <= Len(str) /\ SubSeq(str, 1, Len(p)) = p

\* The pairs <<field of the query, field of the rewritten query>> of two
\* expressions of the same shape.
RECURSIVE ConditionFields(_, _)
ConditionFields(a, b) ==
  IF a.kind = "cond" /\ b.kind = "cond" THEN {<<a.field, b.field>>}
  ELSE IF a.kind = "logical" /\ b.kind = "logical"
  THEN ConditionFields(a.left, b.left) \cup ConditionFields(a.right, b.right)
  ELSE {}

\* The pairs <<field, rewritten field>> of SELECT, WHERE and HAVING.
RewrittenFields ==
  {<<query.select_fields[i], rewritten.select_fields[i]>> :
     i \in 1..Len(query.select_fields)}
  \cup ConditionFields(query.where, rewritten.where)
  \cup ConditionFields(query.having, rewritten.having)

\* The candidates of a short code whose full name the hint prefixes; no
\* candidate when there is no preceding component.
Hinted(candidates, hint) ==
  {i \in 1..Len(candidates) :
     hint # <<>> /\ IsPrefixOf(hint, candidates[i].full_name)}

\* The component c, preceded by hint in the rewritten path, was expanded to
\* out as the rule says.
ExpandedByRule(c, hint, out) ==
  LET candidates == findByShortId(schema, c)
      hinted     == Hinted(candidates, hint)
  IN IF ~isShortcutPattern(c) \/ candidates = <<>> THEN out = c
     ELSE IF Len(candidates) = 1 THEN out = candidates[1].full_name
     ELSE IF hinted # {}
     THEN \E i \in hinted : /\ out = candidates[i].full_name
                            /\ \A j \in hinted : i <= j
     ELSE /\ out = candidates[1].full_name
          /\ \E w \in 1..Len(cerr) :
               /\ cerr[w].shortcut = c
               /\ cerr[w].candidates =
                    [i \in 1..Len(candidates) |-> candidates[i].full_name]

\* The component needed the fallback to the first candidate.
FellBack(c, hint) ==
  /\ isShortcutPattern(c)
  /\ Len(findByShortId(schema, c)) > 1
  /\ Hinted(findByShortId(schema, c), hint) = {}

\* The component that precedes the j-th in the rewritten path.
HintOf(out, j) == IF j = 1 THEN <<>> ELSE out.components[j - 1]

\* C18: a component of the short-code shape with no candidate in the schema
\* is left unchanged; with one candidate it becomes that candidate's full
\* name; with several it becomes the full name of the first candidate that
\* the preceding component of the path prefixes, and when there is none a
\* warning that lists all the candidates is written and the first candidate
\* in schema order is used. Every rewrite returns, and warnings are written
\* for fallbacks only.
C18_ShortCodesExpandByRule ==
  /\ (entry = "rewrite" /\ pc = "schema") => ENABLED Rewrite
  /\ (entry = "rewrite" /\ pc = "rewritten") =>
       /\ Len(rewritten.select_fields) = Len(query.select_fields)
       /\ \A pair \in RewrittenFields :
            LET in  == pair[1]
                out == pair[2]
            IN /\ Len(out.components) = Len(in.components)
               /\ \A j \in 1..Len(in.components) :
                    ExpandedByRule(in.components[j], HintOf(out, j), out.components[j])
               /\ in.is_attribute =>
                    ExpandedByRule(in.attribute_name, <<>>, out.attribute_name)
       /\ (cerr # <<>>) <=>
            \E pair \in RewrittenFields :
              \/ \E j \in 1..Len(pair[1].components) :
                   FellBack(pair[1].components[j], HintOf(pair[2], j))
              \/ pair[1].is_attribute /\ FellBack(pair[1].attribute_name, <<>>)

\* 30_001 names S21_G00_30_001 then S89_G00_30_001 in the schema, and the
\* path S89_G00_30.30_001 was rewritten to S89_G00_30.S89_G00_30_001 without
\* a warning.
C18_Witness ==
  /\ pc = "rewritten"
  /\ query.select_fields = <<Field(<<sBloc89, s30_001>>)>>
  /\ findByShortId(schema, s30_001) =
       <<DsnAttribute(sS21_30_001, s30_001), DsnAttribute(sS89_30_001, s30_001)>>
  /\ rewritten.select_fields = <<Field(<<sBloc89, sS89_30_001>>)>>
  /\ cerr = <<>>

----------------------------------------------------------------------------
(* C19 *)

\* A component the schema recognizes as a shortcut.
RecognizedShortcut(s, c) == isShortcutPattern(c) /\ findByShortId(s, c) # <<>>

\* out is the field in but for its recognized shortcuts.
SameFieldButShortcuts(s, in, out) ==
  /\ [out EXCEPT !.components = in.components,
                 !.attribute_name = in.attribute_name] = in
  /\ Len(out.components) = Len(in.components)
  /\ \A j \in 1..Len(in.components) :
       out.components[j] = in.components[j] \/ RecognizedShortcut(s, in.components[j])
  /\ \/ out.attribute_name = in.attribute_name
     \/ in.is_attribute /\ RecognizedShortcut(s, in.attribute_name)

\* b is the expression a but for the recognized shortcuts of its fields.
RECURSIVE SameExprButShortcuts(_, _, _)
SameExprButShortcuts(s, a, b) ==
  /\ a.kind = b.kind
  /\ a.kind = "cond" =>
       /\ [b EXCEPT !.field = a.field] = a
       /\ SameFieldButShortcuts(s, a.field, b.field)
  /\ a.kind = "logical" =>
       /\ a.op = b.op
       /\ SameExprButShortcuts(s, a.left, b.left)
       /\ SameExprButShortcuts(s, a.right, b.right)

\* r is the query q but for the recognized shortcuts of SELECT, WHERE, HAVING.
SameQueryButShortcuts(s, q, r) ==
  /\ [r EXCEPT !.select_fields = q.select_fields, !.where = q.where,
               !.having = q.having] = q
  /\ Len(r.select_fields) = Len(q.select_fields)
  /\ \A i \in 1..Len(q.select_fields) :
       SameFieldButShortcuts(s, q.select_fields[i], r.select_fields[i])
  /\ SameExprButShortcuts(s, q.where, r.where)
  /\ SameExprButShortcuts(s, q.having, r.having)

\* The fields of the conditions of an expression.
RECURSIVE FieldsOfExpr(_)
FieldsOfExpr(e) ==
  IF e.kind = "cond" THEN {e.field}
  ELSE IF e.kind = "logical" THEN FieldsOfExpr(e.left) \cup FieldsOfExpr(e.right)
  ELSE {}

\* The query has a component that rewrite() expands.
HasShortcut(s, q) ==
  \E f \in {q.select_fields[i] : i \in 1..Len(q.select_fields)}
             \cup FieldsOfExpr(q.where) \cup FieldsOfExpr(q.having) :
    \/ \E j \in 1..Len(f.components) : RecognizedShortcut(s, f.components[j])
    \/ f.is_attribute /\ RecognizedShortcut(s, f.attribute_name)

\* C19: a rewrite leaves its argument as it was and returns a query with the
\* same DISTINCT flag, FROM path, FOR clauses, GROUP BY, ORDER BY, LIMIT,
\* OFFSET and aggregate flag, the same SELECT fields in the same order with
\* the same flags, WHERE and HAVING trees of the same shape, operators and
\* values; only recognized shortcut components differ, and a query without
\* one is returned equal.
C19_RewriteChangesOnlyShortcuts ==
  [][(entry = "rewrite" /\ pc = "schema" /\ pc' = "rewritten") =>
       /\ query' = query
       /\ SameQueryButShortcuts(schema, query, rewritten')
       /\ ~HasShortcut(schema, query) => rewritten' = query]_vars

\* A query that sets every member was rewritten: its shortcuts are expanded
\* and the rest is as in the query.
C19_Witness ==
  /\ pc = "rewritten"
  /\ query = DsnFullQuery(<<sBloc30, s30_001>>)
  /\ findByShortId(schema, s30_001) # <<>>
  /\ rewritten.select_fields[1].components = <<sBloc30, sS21_30_001>>
  /\ rewritten.offset = 2
  /\ rewritten.having.field.components = <<sBloc30, sS21_30_001>>
  /\ rewritten.for_clauses = query.for_clauses

----------------------------------------------------------------------------
(* Calls with several SELECT fields, on every path of the executor         *)

\* Bound of the documents of these calls.
MaxFieldEmps == 2

FieldEmps == {Emp(sA, s10), Emp(sB, s5)}

\* The sequences of at most n elements of FieldEmps.
RECURSIVE FieldEmpLists(_)
FieldEmpLists(n) ==
  IF n = 0 THEN {<<>>}
  ELSE LET shorter == FieldEmpLists(n - 1)
       IN shorter \cup {Append(l, e) : l \in {x \in shorter : Len(x) = n - 1},
                                       e \in FieldEmps}

\* Without FOR clauses: no WHERE, and WHERE.
FieldPlainQueries ==
  { [Query EXCEPT !.select_fields = <<Field(<<sEmp, sV>>), Field(<<sEmp, sK>>)>>],
    [Query EXCEPT !.select_fields = <<Field(<<sEmp, sK>>), FileNameField,
                                      Field(<<sEmp, sV>>)>>],
    [Query EXCEPT !.select_fields = <<Field(<<sEmp, sV>>), FileNameField,
                                      Field(<<sEmp, sK>>)>>,
                  !.where = [WhereVGreater5 EXCEPT !.field = Field(<<sEmp, sV>>)]] }

\* With FOR e IN emp, without and with WHERE.
FieldForQueries ==
  { [Query EXCEPT !.select_fields = <<VarField(<<sE, sV>>), FileNameField,
                                      VarField(<<sE, sK>>)>>,
                  !.for_clauses = <<ForEmp>>],
    [Query EXCEPT !.select_fields = <<VarField(<<sE, sV>>), VarField(<<sE, sK>>)>>,
                  !.for_clauses = <<ForEmp>>,
                  !.where = [WhereVGreater5 EXCEPT !.field = VarField(<<sE, sV>>)]] }

\* Aggregates of execute: SELECT SUM(emp.v), COUNT(emp.k)
FieldExecuteAggQuery ==
  [Query EXCEPT !.select_fields = <<AggField("SUM", <<>>, <<sEmp, sV>>),
                                    AggField("COUNT", <<>>, <<sEmp, sK>>)>>,
                !.has_aggregates = TRUE]

\* Aggregates under FOR e IN emp: without GROUP BY, and with GROUP BY e.k
\* with the group field after and before the aggregate.
FieldForAggQueries ==
  { [Query EXCEPT !.select_fields = <<AggField("SUM", sEV, <<>>),
                                      AggField("COUNT", sEK, <<>>)>>,
                  !.for_clauses = <<ForEmp>>, !.has_aggregates = TRUE],
    [Query EXCEPT !.select_fields = <<AggField("SUM", sEV, <<>>),
                                      VarField(<<sE, sK>>)>>,
                  !.for_clauses = <<ForEmp>>, !.has_aggregates = TRUE,
                  !.group_by_fields = <<sEK>>],
    [Query EXCEPT !.select_fields = <<VarField(<<sE, sK>>),
                                      AggField("SUM", sEV, <<>>)>>,
                  !.for_clauses = <<ForEmp>>, !.has_aggregates = TRUE,
                  !.group_by_fields = <<sEK>>] }

FieldCalls ==
  { [entry |-> e, query |-> q] :
      e \in {"execute", "executeWithProgress"},
      q \in FieldPlainQueries \cup FieldForQueries }
  \cup {[entry |-> "execute", query |-> FieldExecuteAggQuery]}
  \cup {[entry |-> "executeWithProgress", query |-> q] : q \in FieldForAggQueries}

InitFields ==
  /\ \E c \in FieldCalls : entry = c.entry /\ query = c.query
  /\ \E emps \in FieldEmpLists(MaxFieldEmps) :
       xmlFiles = <<File(1, TRUE, Root(emps))>>
  /\ fileOutcome = [i \in 1..Len(xmlFiles) |->
                      IF entry = "execute" THEN ExecuteFileRows(xmlFiles[i], query)
                      ELSE processFile(xmlFiles[i], query)]
  /\ hwThreads = 2
  /\ pc = "start"
  /\ fileIdx = 1
  /\ allResults = <<>>
  /\ ThreadsIdle
  /\ RewriterIdle
  /\ BinderIdle
  /\ ParserIdle

\* The steps of the two calls on a one-file directory.
NextFields ==
  \/ ExecStart
  \/ ExecFile
  \/ ExecAggregate
  \/ ExecOrderBy
  \/ ExecDistinct
  \/ ExecOffset
  \/ ExecLimit
  \/ ProgStart
  \/ SequentialFile
  \/ ProgOrderBy
  \/ ProgLimit

SpecFields == InitFields /\ [][NextFields]_vars

----------------------------------------------------------------------------
(* C20 *)

\* The names under which a row can report a SELECT field: FILE_NAME; the
\* alias or FUNC(argument) of an aggregate; the last component or the dotted
\* path of a field.
NamesOfField(f) ==
  IF f.include_filename THEN {sFILE_NAME}
  ELSE IF f.aggregate # "NONE"
  THEN {f.alias : x \in {y \in {1} : f.alias # <<>>}}
       \cup {AggFuncName(f.aggregate) \o <<"(">> \o arg \o <<")">> :
               arg \in {f.aggregate_arg, JoinDots(f.components, 1)}}
  ELSE {f.components[Len(f.components)], JoinDots(f.components, 1)}

\* C20: every row returned has one (name, value) pair per SELECT field, the
\* i-th pair being that of the i-th SELECT field, on every path: without
\* WHERE, with WHERE, under FOR clauses, aggregates without and with GROUP BY.
C20_RowsFollowSelectOrder ==
  (entry \in {"execute", "executeWithProgress"} /\ pc = "done")
    => \A r \in 1..Len(allResults) :
         /\ Len(allResults[r]) = Len(query.select_fields)
         /\ \A i \in 1..Len(query.select_fields) :
              allResults[r][i].name \in NamesOfField(query.select_fields[i])

----------------------------------------------------------------------------
(* Nested FOR clauses with AT: the calls over <dept>/<employee> documents  *)

sQ    == <<"q">>
sZ    == <<"z">>
sDVar == <<"d">>
sTwo  == <<"2">>

\* FOR o IN dept [AT p]
ForDept(o, p) ==
  [variable |-> o, path |-> Field(<<sDept>>), position_var |-> p,
   has_position |-> p # <<>>]

\* FOR i IN o.employee [AT q]
ForEmployeeOf(o, i, q) ==
  [variable |-> i, path |-> Field(<<o, sEmployee>>), position_var |-> q,
   has_position |-> q # <<>>]

ComparisonOps ==
  {"EQUALS", "NOT_EQUALS", "LESS_THAN", "GREATER_THAN", "LESS_EQUAL",
   "GREATER_EQUAL"}

\* SELECT p, q, e.name FROM d FOR d IN dept AT p FOR e IN d.employee AT q
PositionBase ==
  [Query EXCEPT !.select_fields = <<VarField(<<sP>>), VarField(<<sQ>>),
                                    VarField(<<sE, sName>>)>>,
                !.for_clauses = <<ForDept(sDVar, sP),
                                  ForEmployeeOf(sDVar, sE, sQ)>>]

\* ... without WHERE, and WHERE p op n, WHERE q op n with n one of 1, 2.
PositionQueries ==
  {PositionBase}
  \cup {[PositionBase EXCEPT !.where = Condition(VarField(<<v>>), op, n, TRUE)] :
          v \in {sP, sQ}, op \in ComparisonOps, n \in {sOne, sTwo}}

\* SELECT i.name FROM d FOR o IN dept FOR i IN o.employee WHERE name = 'a':
\* the condition has no variable prefix; the variables are named d, e and z, a.
UnprefixedQuery(o, i) ==
  [Query EXCEPT !.select_fields = <<VarField(<<i, sName>>)>>,
                !.for_clauses = <<ForDept(o, <<>>), ForEmployeeOf(o, i, <<>>)>>,
                !.where = Condition(Field(<<sName>>), "EQUALS", sA, FALSE)]

UnprefixedQueries == {UnprefixedQuery(sDVar, sE), UnprefixedQuery(sZ, sA)}

InitBind ==
  /\ entry \in {"execute", "executeWithProgress"}
  /\ query \in PositionQueries \cup UnprefixedQueries
  /\ \E r \in NestedRoots : xmlFiles = <<File(1, TRUE, r)>>
  /\ fileOutcome = [i \in 1..Len(xmlFiles) |->
                      IF entry = "execute" THEN ExecuteFileRows(xmlFiles[i], query)
                      ELSE processFile(xmlFiles[i], query)]
  /\ hwThreads = 2
  /\ pc = "start"
  /\ fileIdx = 1
  /\ allResults = <<>>
  /\ ThreadsIdle
  /\ RewriterIdle
  /\ BinderIdle
  /\ ParserIdle

SpecBind == InitBind /\ [][NextPlainCall]_vars

----------------------------------------------------------------------------
(* C21 *)

RECURSIVE Flatten(_)
Flatten(seqs) == IF seqs = <<>> THEN <<>> ELSE Head(seqs) \o Flatten(Tail(seqs))

\* The comparison i op n of two numbers.
NumberCompare(i, op, n) ==
  CASE op = "EQUALS"        -> i = n
    [] op = "NOT_EQUALS"    -> i # n
    [] op = "LESS_THAN"     -> i < n
    [] op = "GREATER_THAN"  -> i > n
    [] op = "LESS_EQUAL"    -> i <= n
    [] op = "GREATER_EQUAL" -> i >= n

\* The WHERE of a query of PositionQueries, with p = i and q = j.
PositionWhereHolds(q, i, j) ==
  \/ q.where.kind = "null"
  \/ NumberCompare(IF q.where.field.variable_name = sP THEN i ELSE j,
                   q.where.op, Stoull(q.where.value).val)

\* The rows of the <employee>s of the i-th <dept>: the j-th reports p = i,
\* q = j and its name.
RowsOfDept(root, q, i) ==
  LET employees == root.children[i].children
  IN Flatten([j \in 1..Len(employees) |->
                IF PositionWhereHolds(q, i, j)
                THEN << <<Pair(sP, NatToString(i)), Pair(sQ, NatToString(j)),
                          Pair(sName, employees[j].children[1].text)>> >>
                ELSE <<>>])

\* C21: under FOR d IN dept AT p FOR e IN d.employee AT q, the row of the
\* j-th <employee> of the i-th <dept> reports p = i and q = j, q counting
\* from 1 again in every <dept>, and a WHERE comparison on p or q keeps the
\* row exactly when i, respectively j, compares so.
C21_PositionIsTheIterationNumber ==
  (pc = "done" /\ query \in PositionQueries)
    => allResults =
         Flatten([i \in 1..Len(xmlFiles[1].root.children) |->
                    RowsOfDept(xmlFiles[1].root, query, i)])

\* Two <dept>s of two <employee>s with WHERE q >= 2: the second employee of
\* each <dept> is returned, with q = 2 in both and p = 1, then 2.
C21_Witness ==
  /\ pc = "done"
  /\ query = [PositionBase EXCEPT
                !.where = Condition(VarField(<<sQ>>), "GREATER_EQUAL", sTwo, TRUE)]
  /\ xmlFiles[1].root = Root(<<Dept(<<sA, sB>>), Dept(<<sB, sA>>)>>)
  /\ allResults = << <<Pair(sP, sOne), Pair(sQ, sTwo), Pair(sName, sB)>>,
                     <<Pair(sP, sTwo), Pair(sQ, sTwo), Pair(sName, sA)>> >>

----------------------------------------------------------------------------
(* C26 *)

\* The <employee> elements of a document, in document order.
EmployeesOf(root) ==
  Flatten([i \in 1..Len(root.children) |-> root.children[i].children])

\* C26: under FOR o IN dept FOR i IN o.employee, the condition name = 'a',
\* which has no variable prefix, is evaluated against the <employee> bound
\* by the inner clause: the rows are those of the employees named a, in
\* document order, whatever the names of the two variables.
C26_UnprefixedConditionUsesInnermostVariable ==
  (pc = "done" /\ query \in UnprefixedQueries)
    => allResults =
         [k \in 1..Len(SelectSeq(EmployeesOf(xmlFiles[1].root),
                                 LAMBDA e : e.children[1].text = sA)) |->
            <<Pair(sName, sA)>>]

----------------------------------------------------------------------------
(* The calls of processNestedForClauses made while one file is processed   *)

\* FOR o IN dept AT p FOR i IN o.employee AT q, with distinct names and with
\* the inner clause reusing the name of the outer variable, of the outer
\* position, or both.
FrameQueries ==
  {[Query EXCEPT !.select_fields = <<VarField(<<i, sName>>)>>,
                 !.for_clauses = <<ForDept(sDVar, sP),
                                   ForEmployeeOf(sDVar, i, q)>>] :
     i \in {sE, sDVar}, q \in {sQ, sP, <<>>}}

\* The call processFileWithForClauses makes.
InitFrame ==
  /\ entry = "processNestedForClauses"
  /\ query \in FrameQueries
  /\ \E r \in NestedRoots : xmlFiles = <<File(1, TRUE, r)>>
  /\ call = [currentContext |-> RootHandle(xmlFiles[1]),
             st |-> [results |-> <<>>, var |-> EmptyMap, pos |-> EmptyMap],
             forClauseIndex |-> 1]
  /\ ret = <<>>
  /\ fileOutcome = <<>>
  /\ hwThreads = 0
  /\ pc = "entered"
  /\ fileIdx = 1
  /\ allResults = <<>>
  /\ ThreadsIdle
  /\ RewriterIdle
  /\ ParserIdle

\* The recursive call of the i-th iteration of the loop of the current call:
\* the iterations before it have run, and the i-th has bound its node and
\* position.
EnterIteration ==
  /\ entry = "processNestedForClauses"
  /\ pc = "entered"
  /\ call.forClauseIndex <= Len(query.for_clauses)
  /\ LET forClause == query.for_clauses[call.forClauseIndex]
         doc   == xmlFiles[1]
         nodes == IterationNodes(forClause, call.currentContext, call.st.var, doc)
     IN \E i \in 1..Len(nodes) :
          LET before == ForLoop(SubSeq(nodes, 1, i - 1), 1, query, call.st,
                                call.forClauseIndex, xmlFiles[1].name, doc)
          IN call' = [currentContext |-> nodes[i],
                      st |-> [before EXCEPT
                                !.var = MapPut(@, forClause.variable, nodes[i]),
                                !.pos = IF forClause.has_position
                                        THEN MapPut(@, forClause.position_var, i)
                                        ELSE @],
                      forClauseIndex |-> call.forClauseIndex + 1]
  /\ UNCHANGED <<entry, query, xmlFiles, fileOutcome, pc, fileIdx, allResults,
                 threadVars, parserVars, rewriterVars, logVars, ret>>

\* The current call runs to its return.
ReturnFromCall ==
  /\ entry = "processNestedForClauses"
  /\ pc = "entered"
  /\ LET st == processNestedForClauses(call.currentContext, query, call.st,
                                       call.forClauseIndex, xmlFiles[1].name,
                                       xmlFiles[1])
     IN ret' = [var |-> st.var, pos |-> st.pos]
  /\ pc' = "returned"
  /\ UNCHANGED <<entry, query, xmlFiles, fileOutcome, fileIdx, allResults,
                 threadVars, parserVars, rewriterVars, logVars, call>>

NextFrame == EnterIteration \/ ReturnFromCall

SpecFrame == InitFrame /\ [][NextFrame]_vars

----------------------------------------------------------------------------
(* C25 *)

\* C25: when a call of processNestedForClauses returns, the variable
\* bindings and the position bindings are those of its entry, whether or
\* not the FOR clauses use distinct names.
C25_BindingsRestoredOnReturn ==
  (entry = "processNestedForClauses" /\ pc = "returned")
    => ret.var = call.st.var /\ ret.pos = call.st.pos

----------------------------------------------------------------------------
(* Token lists with aggregate functions: Parser::parse, then execute       *)

\* Bound of the documents of these calls.
MaxParsedEmps == 2

\* The token list of a sequence of <<type, value>> pairs, the end marker
\* added.
TokensOf(parts) ==
  [i \in 1..(Len(parts) + 1) |->
     IF i <= Len(parts) THEN Token(parts[i][1], parts[i][2], i - 1)
     ELSE Token("END_OF_INPUT", <<>>, i - 1)]

tSELECT == <<"SELECT", <<"S", "E", "L", "E", "C", "T">>>>
tFROM   == <<"FROM", <<"F", "R", "O", "M">>>>
tWHERE  == <<"WHERE", <<"W", "H", "E", "R", "E">>>>
tFOR    == <<"FOR", <<"F", "O", "R">>>>
tIN     == <<"IN", <<"I", "N">>>>
tAS     == <<"AS", <<"A", "S">>>>
tLPAREN == <<"LPAREN", <<"(">>>>
tRPAREN == <<"RPAREN", <<")">>>>
tDOT    == <<"DOT", <<".">>>>
tCOMMA  == <<"COMMA", <<",">>>>
tGREATER == <<"GREATER_THAN", <<">">>>>

tId(name) == <<"IDENTIFIER", name>>

tAgg(agg) == <<agg, AggFuncName(agg)>>

AggregateFuncs == {"COUNT", "SUM", "AVG", "MIN", "MAX"}

\* SELECT agg(emp.v) [AS n] FROM d
\* SELECT agg(e.v), e.k FROM d FOR e IN emp
\* SELECT emp.k, FILE_NAME FROM d [WHERE emp.v > 5]
AggTokenLists ==
  {TokensOf(<<tSELECT, tAgg(a), tLPAREN, tId(sEmp), tDOT, tId(sV), tRPAREN>>
            \o alias \o <<tFROM, tId(sDVar)>>) :
     a \in AggregateFuncs, alias \in {<<>>, <<tAS, tId(sName)>>}}
  \cup
  {TokensOf(<<tSELECT, tAgg(a), tLPAREN, tId(sE), tDOT, tId(sV), tRPAREN, tCOMMA,
              tId(sE), tDOT, tId(sK), tFROM, tId(sDVar), tFOR, tId(sE), tIN,
              tId(sEmp)>>) : a \in AggregateFuncs}
  \cup
  {TokensOf(<<tSELECT, tId(sEmp), tDOT, tId(sK), tCOMMA, tId(sFILE_NAME), tFROM,
              tId(sDVar)>> \o where) :
     where \in {<<>>, <<tWHERE, tId(sEmp), tDOT, tId(sV), tGREATER,
                        <<"NUMBER", s5>>>>}}

InitAggParse ==
  /\ entry = "execute"
  /\ input = <<>>
  /\ tokens \in AggTokenLists
  /\ parsed = [status |-> "none"]
  /\ query = Query
  /\ \E emps \in FieldEmpLists(MaxParsedEmps) : xmlFiles = <<File(1, TRUE, Root(emps))>>
  /\ fileOutcome = <<>>
  /\ hwThreads = 0
  /\ pc = "parse"
  /\ fileIdx = 1
  /\ allResults = <<>>
  /\ ThreadsIdle
  /\ RewriterIdle
  /\ BinderIdle

NextAggParse ==
  \/ Parse
  \/ ExecStart
  \/ ExecFile
  \/ ExecAggregate
  \/ ExecOrderBy
  \/ ExecDistinct
  \/ ExecOffset
  \/ ExecLimit

SpecAggParse == InitAggParse /\ [][NextAggParse]_vars

----------------------------------------------------------------------------
(* C22 *)

\* The invariant of a FieldPath.
HasComponents(f) == f.components # <<>> \/ f.include_filename \/ f.is_attribute

\* The FieldPaths of a Query, and those execute derives for its extraction
\* query.
FieldPathsOf(q) ==
  {q.select_fields[i] : i \in 1..Len(q.select_fields)}
  \cup FieldsOfExpr(q.where)
  \cup {q.for_clauses[i].path : i \in 1..Len(q.for_clauses)}
  \cup {TempQuery(q).select_fields[i] : i \in 1..Len(TempQuery(q).select_fields)}

\* C22: every FieldPath of the Query the parser returned, and every one
\* execute derives from it, has components unless include_filename or
\* is_attribute is set, and no step of the execution reads the last
\* component of an empty list.
C22_FieldPathsHaveComponents ==
  (entry = "execute" /\ parsed.status = "ok")
    => /\ \A f \in FieldPathsOf(parsed.query) : HasComponents(f)
       /\ pc # "crashed"

----------------------------------------------------------------------------
(* C23 *)

\* The workers inside the lock_guard scope of executeMultithreaded.
InCriticalSection == {w \in Workers : wpc[w] \in {"insert", "unlock"}}

\* C23: at most one worker at a time is inside the append to the shared
\* result list, every worker that is about to write or has written holds
\* resultsMutex, and no worker holds it while it loads and navigates a file or
\* is anywhere else outside the append.
C23_AppendIsMutuallyExclusive ==
  /\ Cardinality(InCriticalSection) <= 1
  /\ \A w \in Workers : (w \in InCriticalSection) <=> (resultsMutex = w)
  /\ \A w \in Workers : wpc[w] = "load" => resultsMutex # w

\* One worker is inside the append while another, its rows ready, waits for
\* the mutex.
C23_Witness ==
  \E w1, w2 \in Workers :
    /\ w1 # w2
    /\ wpc[w1] = "insert" /\ resultsMutex = w1 /\ fileResults[w1] # <<>>
    /\ wpc[w2] = "lock" /\ fileResults[w2] # <<>>

----------------------------------------------------------------------------
(* executeMultithreaded with fewer, as many and more workers than files     *)

\* The directories of these calls: the smallest that runs threaded, with no
\* failing file, the first failing or the last failing, and a directory of
\* one file, which runs without workers.
StrideDirectories ==
  { ProgressDirectory(ThreadingThreshold, failed) :
      failed \in {{}, {1}, {ThreadingThreshold}} }
  \cup { ProgressDirectory(1, {}) }

\* The values of hardware_concurrency() of these calls: fewer workers than
\* files and more workers than files.
StrideThreads == {2, 3, ThreadingThreshold + 1}

InitStride ==
  /\ entry = "executeWithProgress"
  /\ query = ForQuery
  /\ xmlFiles \in StrideDirectories
  /\ hwThreads \in StrideThreads
  /\ fileOutcome = [i \in 1..Len(xmlFiles) |-> processFile(xmlFiles[i], query)]
  /\ pc = "start"
  /\ fileIdx = 1
  /\ allResults = <<>>
  /\ ThreadsIdle
  /\ RewriterIdle
  /\ BinderIdle
  /\ ParserIdle

SpecStride == InitStride /\ [][NextProgress]_vars

----------------------------------------------------------------------------
(* C24 *)

RECURSIVE StrideOf(_, _, _)
\* The indices i, i + T, i + 2T, ... below F, in increasing order.
StrideOf(i, T, F) == IF i >= F THEN <<>> ELSE <<i>> \o StrideOf(i + T, T, F)

\* How many times the workers gave file index i to processFile.
TimesProcessed(i) ==
  Cardinality({<<w, k>> \in Workers \X (1..fileCount) :
                 k <= Len(processed[w]) /\ processed[w][k] = i})

\* C24: worker w (threadId w - 1) of T workers gives processFile the indices
\* w - 1, w - 1 + T, ... below F in that order and no other; once the workers
\* are joined every index below F was processed exactly once, by exactly one
\* worker, also when T > F.
C24_WorkersPartitionTheFiles ==
  (wpc # <<>>)
    => /\ Len(wpc) = threadCount
       /\ \A w \in Workers :
            /\ IsPrefixOf(processed[w], StrideOf(w - 1, threadCount, fileCount))
            /\ wpc[w] = "finished"
                 => processed[w] = StrideOf(w - 1, threadCount, fileCount)
       /\ (\A w \in Workers : wpc[w] = "finished")
            => \A i \in 0..(fileCount - 1) : TimesProcessed(i) = 1

\* More workers than files: the workers are joined, some worker processed
\* nothing and another processed its file.
C24_Witness ==
  /\ wpc # <<>>
  /\ threadCount > fileCount
  /\ \A w \in Workers : wpc[w] = "finished"
  /\ \E w \in Workers : processed[w] = <<>>
  /\ \E w \in Workers : processed[w] = <<w - 1>>

\* Fewer workers than files: a joined worker processed several files.
C24_WitnessStride ==
  /\ wpc # <<>>
  /\ threadCount < fileCount
  /\ \A w \in Workers : wpc[w] = "finished"
  /\ \E w \in Workers : Len(processed[w]) >= 2

----------------------------------------------------------------------------
(* WHERE on a one-component field, no FOR: the searchTree lambda            *)

\* Bounds of the documents of these calls: the <item>s of the root and the
\* child elements of an <item>.
MaxItems == 2
MaxKids  == 2

sItem == <<"i", "t", "e", "m">>
sG    == <<"g">>

\* <v>t</v> and <g><v>t</v></g>
VElem(t) == Elem(sV, t, <<>>)
GElem(t) == Elem(sG, <<>>, <<VElem(t)>>)

\* The child elements of an <item>: a <v> directly, or one level down.
Kids == {VElem(s5), VElem(s10), GElem(s5), GElem(s10)}

\* The non-empty sequences of at most n elements of S.
RECURSIVE SeqsUpTo(_, _)
SeqsUpTo(S, n) ==
  IF n = 0 THEN {}
  ELSE LET shorter == SeqsUpTo(S, n - 1)
       IN {<<e>> : e \in S} \cup {Append(l, e) : l \in shorter, e \in S}

Items == {Elem(sItem, <<>>, kids) : kids \in SeqsUpTo(Kids, MaxKids)}

ShorthandRoots == {Root(items) : items \in SeqsUpTo(Items, MaxItems)}

\* SELECT v FROM d WHERE v > 5, WHERE v = 10, WHERE v > 5 AND v != 10
ShorthandWheres ==
  {WhereVGreater5,
   Condition(Field(<<sV>>), "EQUALS", s10, TRUE),
   Logical("AND", WhereVGreater5, Condition(Field(<<sV>>), "NOT_EQUALS", s20, TRUE))}

InitShorthand ==
  /\ entry \in {"execute", "executeWithProgress"}
  /\ \E w \in ShorthandWheres :
       query = [Query EXCEPT !.select_fields = <<FileNameField, Field(<<sV>>)>>,
                             !.where = w]
  /\ \E r \in ShorthandRoots : xmlFiles = <<File(1, TRUE, r)>>
  /\ fileOutcome = [i \in 1..Len(xmlFiles) |->
                      IF entry = "execute" THEN ExecuteFileRows(xmlFiles[i], query)
                      ELSE processFile(xmlFiles[i], query)]
  /\ hwThreads = 2
  /\ pc = "start"
  /\ fileIdx = 1
  /\ allResults = <<>>
  /\ ThreadsIdle
  /\ RewriterIdle
  /\ BinderIdle
  /\ ParserIdle

SpecShorthand == InitShorthand /\ [][NextPlainCall]_vars

----------------------------------------------------------------------------
(* C27 *)

\* The element has a child element of that name.
HasChildNamed(h, name) ==
  \E i \in 1..Len(h.el.children) : h.el.children[i].name = name

\* The elements of the document, in document order, that have the WHERE
\* field as a direct child and on which WHERE is true.
MatchingParents(file, q) ==
  SelectSeq(PreOrder(RootHandle(file)),
            LAMBDA h : /\ HasChildNamed(h, extractFieldPathFromWhere(q.where).components[1])
                       /\ evaluateWhereExpr(h, q.where, 0))

\* C27: for a query with WHERE and without FOR whose WHERE field has one
\* component and is no null check, the rows are one row per element that has
\* an element of that name as a direct child and on which WHERE is true, in
\* document order.
C27_OneRowPerMatchingParent ==
  (pc = "done" /\ query.for_clauses = <<>> /\ query.where.kind # "null"
   /\ Len(extractFieldPathFromWhere(query.where).components) = 1
   /\ Len(xmlFiles) = 1)
    => LET hs == MatchingParents(xmlFiles[1], query)
       IN allResults = [i \in 1..Len(hs) |-> WhereRow(hs[i], query, xmlFiles[1].name)]

----------------------------------------------------------------------------
(* C28 *)

\* C28: in executeWithProgress the values of `completed` handed to the
\* progress callback never decrease and never exceed the number of files,
\* the last one of a call over a non-empty directory is the number of files,
\* and the counter of the threaded path has counted every file, failed or
\* not, when the workers are joined.
C28_ProgressCountsEveryFile ==
  /\ [](progress <= fileCount)
  /\ [][progress' >= progress]_vars
  /\ []((wpc # <<>> /\ \A w \in Workers : wpc[w] = "finished") => completed = fileCount)
  /\ []((entry = "executeWithProgress" /\ pc = "done" /\ xmlFiles # <<>>)
          => progress = fileCount)

----------------------------------------------------------------------------
(* C29 *)

\* The rows of the files that load, file after file, as either call merges
\* them.
RECURSIVE MergedRows(_, _, _)
MergedRows(files, q, which) ==
  IF files = <<>> THEN <<>>
  ELSE (IF ~Head(files).loads THEN <<>>
        ELSE IF which = "execute" THEN ExecuteFileRows(Head(files), q).rows
        ELSE processFile(Head(files), q).rows)
         \o MergedRows(Tail(files), q, which)

\* What execute returns for a query whose aggregate fields name a column.
ExecuteReturns(q, files) ==
  IF files = <<>> THEN <<>>
  ELSE IF HasAggregates(q) THEN <<AggregateRow(q, MergedRows(files, q, "execute"))>>
  ELSE ApplyLimit(q, ApplyOffset(q, ApplyDistinct(q,
         ApplyOrderBy("execute", q, MergedRows(files, q, "execute")))))

\* What the single-threaded path of executeWithProgress returns.
ProgressReturns(q, files) ==
  IF files = <<>> THEN <<>>
  ELSE ApplyLimit(q, ApplyOrderBy("progress", q, MergedRows(files, q, "progress")))

\* The call runs over files that all load, on one thread, and every
\* aggregate field of the query names a column.
ComparableCall ==
  /\ \A i \in 1..Len(xmlFiles) : xmlFiles[i].loads
  /\ ~useThreading
  /\ \A i \in 1..Len(query.select_fields) :
       query.select_fields[i].aggregate # "NONE"
         => AggregateIsDefined(query.select_fields[i])

\* C29: for the same query over the same files, all of which load, execute
\* and executeWithProgress return the same multiset of rows, and the same
\* sequence when the query has ORDER BY: the rows a call returned are the
\* rows the other call returns.
C29_BothCallsReturnTheSameRows ==
  (pc = "done" /\ ComparableCall)
    => LET own   == IF entry = "execute" THEN ExecuteReturns(query, xmlFiles)
                    ELSE ProgressReturns(query, xmlFiles)
           other == IF entry = "execute" THEN ProgressReturns(query, xmlFiles)
                    ELSE ExecuteReturns(query, xmlFiles)
       IN /\ allResults = own
          /\ SameMultiset(allResults, other)
          /\ query.order_by_fields # <<>> => allResults = other

----------------------------------------------------------------------------
(* FOR-clause aggregation with several aggregates                          *)

sN == <<"n">>
sS == <<"s">>

\* The SELECT lists: two aggregates over the same argument in both orders,
\* over different arguments, and with aliases.
SeveralAggregates ==
  { <<AggField("COUNT", sEV, <<>>), AggField("SUM", sEV, <<>>)>>,
    <<AggField("SUM", sEV, <<>>), AggField("COUNT", sEV, <<>>)>>,
    <<AggField("MIN", sEV, <<>>), AggField("MAX", sEV, <<>>)>>,
    <<AggField("COUNT", sEK, <<>>), AggField("SUM", sEV, <<>>)>>,
    <<AggField("SUM", sEV, <<>>)>>,
    <<[AggField("COUNT", sEV, <<>>) EXCEPT !.alias = sN],
      [AggField("SUM", sEV, <<>>) EXCEPT !.alias = sS]>>,
    <<[AggField("COUNT", sEV, <<>>) EXCEPT !.alias = sN],
      AggField("SUM", sEV, <<>>)>> }

\* SELECT aggregates FROM d FOR e IN emp
SeveralAggQueries ==
  { [Query EXCEPT !.select_fields = fields, !.for_clauses = <<ForEmp>>,
                  !.has_aggregates = TRUE] : fields \in SeveralAggregates }

InitForAgg ==
  /\ entry = "executeWithProgress"
  /\ query \in SeveralAggQueries
  /\ \E emps \in FieldEmpLists(MaxFieldEmps) :
       xmlFiles = <<File(1, TRUE, Root(emps))>>
  /\ fileOutcome = [i \in 1..Len(xmlFiles) |-> processFile(xmlFiles[i], query)]
  /\ hwThreads = 2
  /\ pc = "start"
  /\ fileIdx = 1
  /\ allResults = <<>>
  /\ ThreadsIdle
  /\ RewriterIdle
  /\ BinderIdle
  /\ ParserIdle

\* The steps of the single-threaded path of executeWithProgress.
NextSequential ==
  \/ ProgStart
  \/ SequentialFile
  \/ ProgOrderBy
  \/ ProgLimit

SpecForAgg == InitForAgg /\ [][NextSequential]_vars

----------------------------------------------------------------------------
(* C30 *)

\* The rows of the nested iteration over the file, before aggregation.
IterationRows(file, q) ==
  processNestedForClauses(RootHandle(file), q,
                          [results |-> <<>>, var |-> EmptyMap, pos |-> EmptyMap],
                          1, file.name, file).results

\* C30: in FOR-clause aggregation without GROUP BY the i-th aggregate of the
\* output row is computed from the values of the i-th column of the
\* iteration rows, the column emitted for that aggregate, and from no other
\* column.
C30_AggregateUsesItsOwnColumn ==
  (pc = "done" /\ query.has_aggregates /\ query.for_clauses # <<>>
   /\ query.group_by_fields = <<>> /\ Len(xmlFiles) = 1
   /\ IterationRows(xmlFiles[1], query) # <<>>)
    => LET rows == IterationRows(xmlFiles[1], query)
       IN /\ Len(allResults) = 1
          /\ Len(allResults[1]) = Len(query.select_fields)
          /\ \A i \in 1..Len(query.select_fields) :
               allResults[1][i].value =
                 ForApplyAggregate(query.select_fields[i].aggregate,
                                   [r \in 1..Len(rows) |-> rows[r][i].value])

====
